---- MODULE Spec2Model ----
(***************************************************************************)
(* CSViewr: the CSV merge engine (csvUtils) and the upload handler (App).  *)
(*                                                                         *)
(* The repository holds several versions of csvUtils and of App; each is   *)
(* modelled under its own name:                                            *)
(*   mergeRows, selectLatestValue, mergeCSVData   src/src/utils/csvUtils.ts*)
(*   mergeRowsEsc, escapeCSVCell                  src/unnamed/part_003     *)
(*   normalizeString, foldRow002, overlayRow002,                           *)
(*   mergeCSVData002                              src/unnamed/part_002     *)
(*   rowUnion, linkedFold, crossJoinInline,                                *)
(*   HandleFileUpload                             src/src/App.tsx          *)
(*   HandleFileUpload001                          src/unnamed/part_001     *)
(*                                                                         *)
(* A string is a sequence of characters, a character a one-token string.   *)
(* A record (a JavaScript object with string keys) is a sequence of        *)
(* <<field, value>> entries in insertion order, the order Object.entries   *)
(* and the spread operator follow.                                         *)
(***************************************************************************)
EXTENDS Integers, Sequences, FiniteSets, TLC

\* ------------------------------------------------------------------ strings

\* JavaScript's undefined, the value of a field the object does not have.
Undef == <<"<undefined>">>

\* An absent excludeKey argument.
NoKey == "<undefined>"

\* White space as String.prototype.trim and the regular expression \s see it:
\* " " is U+0020, "wsp" the ideographic (full-width) space U+3000, "\n" and
\* "\r" the line terminators.
WhiteSpace == {" ", "wsp", "\n", "\r"}

RECURSIVE trimStart(_)
trimStart(s) ==
    IF s # <<>> /\ Head(s) \in WhiteSpace THEN trimStart(Tail(s)) ELSE s

RECURSIVE trimEnd(_)
trimEnd(s) ==
    IF s # <<>> /\ s[Len(s)] \in WhiteSpace
    THEN trimEnd(SubSeq(s, 1, Len(s) - 1))
    ELSE s

\* String.prototype.trim
trim(s) == trimEnd(trimStart(s))

\* !value of JavaScript for a string or undefined
Falsy(v) == v = Undef \/ v = <<>>

\* `${a}, ${b}`
CommaJoin(a, b) == a \o <<",", " ">> \o b

\* ------------------------------------------------------------------ dates

\* Date strings are single tokens: "d1" stands for "2024-01-01", "d2" for
\* "2024-06-01", "d3" for "2024-12-01".  Every other string, the empty one
\* and a ", "-joined pair of dates included, is an Invalid Date (NaN).
NaN == -1

DateTime(s) ==
    IF s = <<"d1">> THEN 1
    ELSE IF s = <<"d2">> THEN 2
    ELSE IF s = <<"d3">> THEN 3
    ELSE NaN

\* a > b on time values: every comparison with NaN is false
DateGt(a, b) == a # NaN /\ b # NaN /\ a > b

\* ------------------------------------------------------------------ records

RECURSIVE IndexOf(_, _, _)
IndexOf(r, f, i) ==
    IF i > Len(r) THEN 0
    ELSE IF r[i][1] = f THEN i
    ELSE IndexOf(r, f, i + 1)

Has(r, f) == IndexOf(r, f, 1) # 0

\* r[f]
Get(r, f) == IF Has(r, f) THEN r[IndexOf(r, f, 1)][2] ELSE Undef

\* r[f] = v: an existing key keeps its position, a new key is appended
Put(r, f, v) ==
    IF Has(r, f)
    THEN [r EXCEPT ![IndexOf(r, f, 1)] = <<f, v>>]
    ELSE Append(r, <<f, v>>)

\* Object.keys(r) as a set
Fields(r) == {r[i][1] : i \in 1..Len(r)}

\* ------------------------------------------------------------------ csvUtils.ts

selectLatestValue(oldEntry, newEntry) ==
    IF Falsy(oldEntry.timestamp) \/ Falsy(newEntry.timestamp)
    THEN CommaJoin(oldEntry.value, newEntry.value)
    ELSE IF DateGt(DateTime(newEntry.timestamp), DateTime(oldEntry.timestamp))
         THEN newEntry.value
         ELSE oldEntry.value

\* the fields mergeRows resolves by timestamp, and the timestamp field
LatestWinsFields == {"status", "position"}
UpdatedAt == "updated_at"

\* mergeRowsField without the test target[field] !== value
mergeRowsFieldNoEqualityTest(target, source, excludeKey, field, value) ==
    LET t == Get(target, field) IN
    IF field = excludeKey \/ trim(value) = <<>> THEN target
    ELSE IF Falsy(t) \/ trim(t) = <<>> THEN Put(target, field, value)
    ELSE IF field \in LatestWinsFields
         THEN Put(target, field,
                  selectLatestValue(
                      [value |-> t, timestamp |-> Get(target, UpdatedAt)],
                      [value |-> value, timestamp |-> Get(source, UpdatedAt)]))
         ELSE Put(target, field, CommaJoin(t, value))

\* mergeRowsField without the test field === excludeKey
mergeRowsFieldNoExcludeTest(target, source, excludeKey, field, value) ==
    LET t == Get(target, field) IN
    IF trim(value) = <<>> THEN target
    ELSE IF Falsy(t) \/ trim(t) = <<>> THEN Put(target, field, value)
    ELSE IF t # value
         THEN IF field \in LatestWinsFields
              THEN Put(target, field,
                       selectLatestValue(
                           [value |-> t, timestamp |-> Get(target, UpdatedAt)],
                           [value |-> value, timestamp |-> Get(source, UpdatedAt)]))
              ELSE Put(target, field, CommaJoin(t, value))
         ELSE target

\* one iteration of the forEach of mergeRows
mergeRowsField(target, source, excludeKey, field, value) ==
    LET t == Get(target, field) IN
    IF field = excludeKey \/ trim(value) = <<>> THEN target
    ELSE IF Falsy(t) \/ trim(t) = <<>> THEN Put(target, field, value)
    ELSE IF t # value
         THEN IF field \in LatestWinsFields
              THEN Put(target, field,
                       selectLatestValue(
                           [value |-> t, timestamp |-> Get(target, UpdatedAt)],
                           [value |-> value, timestamp |-> Get(source, UpdatedAt)]))
              ELSE Put(target, field, CommaJoin(t, value))
         ELSE target

RECURSIVE mergeRowsFrom(_, _, _, _)
mergeRowsFrom(target, source, excludeKey, i) ==
    IF i > Len(source) THEN target
    ELSE mergeRowsFrom(
             mergeRowsField(target, source, excludeKey, source[i][1], source[i][2]),
             source, excludeKey, i + 1)

\* mergeRows(target, source, excludeKey): the target after the call
mergeRows(target, source, excludeKey) == mergeRowsFrom(target, source, excludeKey, 1)

\* ------------------------------------------------------------------ csvUtils.ts: parseCSV

\* parseCSVLine: the loop over the characters of line from index i on, with
\* the fields pushed so far, the field being read and the quote flag
RECURSIVE parseCSVLineFrom(_, _, _, _, _)
parseCSVLineFrom(line, i, result, currentValue, inQuotes) ==
    IF i > Len(line) THEN Append(result, currentValue)
    ELSE LET char == line[i]
             nextChar == IF i + 1 <= Len(line) THEN line[i + 1] ELSE "<undefined>"
         IN  IF char = "\"" /\ ~inQuotes
             THEN parseCSVLineFrom(line, i + 1, result, currentValue, TRUE)
             ELSE IF char = "\"" /\ inQuotes
             THEN IF nextChar = "\""
                  THEN parseCSVLineFrom(line, i + 2, result,
                                        Append(currentValue, "\""), TRUE)
                  ELSE parseCSVLineFrom(line, i + 1, result, currentValue, FALSE)
             ELSE IF char = "," /\ ~inQuotes
             THEN parseCSVLineFrom(line, i + 1, Append(result, currentValue),
                                   <<>>, FALSE)
             ELSE parseCSVLineFrom(line, i + 1, result,
                                   Append(currentValue, char), inQuotes)

parseCSVLine(line) == parseCSVLineFrom(line, 1, <<>>, <<>>, FALSE)

\* csvString.split(/\r?\n/): lines are the pieces already cut, current the
\* piece being read
RECURSIVE splitLinesFrom(_, _, _, _)
splitLinesFrom(csvString, i, lines, current) ==
    IF i > Len(csvString) THEN Append(lines, current)
    ELSE IF csvString[i] = "\n"
    THEN splitLinesFrom(csvString, i + 1, Append(lines, current), <<>>)
    ELSE IF csvString[i] = "\r" /\ i + 1 <= Len(csvString) /\ csvString[i + 1] = "\n"
    THEN splitLinesFrom(csvString, i + 2, Append(lines, current), <<>>)
    ELSE splitLinesFrom(csvString, i + 1, lines, Append(current, csvString[i]))

splitLines(csvString) == splitLinesFrom(csvString, 1, <<>>, <<>>)

\* headers.reduce((row, header, index) => { row[header] = values[index] || '' })
RECURSIVE rowOfValues(_, _, _)
rowOfValues(headers, values, n) ==
    IF n = 0 THEN <<>>
    ELSE Put(rowOfValues(headers, values, n - 1), headers[n],
             IF n <= Len(values) THEN values[n] ELSE <<>>)

\* parseCSV with hasHeader = true
parseCSV(csvString) ==
    LET lines == SelectSeq(splitLines(csvString), LAMBDA line : Len(trim(line)) > 0)
    IN  IF Len(lines) = 0 THEN <<>>
        ELSE LET headers == parseCSVLine(lines[1])
             IN  [k \in 1..(Len(lines) - 1) |->
                    rowOfValues(headers, parseCSVLine(lines[k + 1]), Len(headers))]

\* ------------------------------------------------------------------ part_003

\* the characters /["\n\r,\\%]/ tests for
EscapeChars == {"\"", "\n", "\r", ",", "\\", "%"}

RECURSIVE doubleQuotes(_)
doubleQuotes(s) ==
    IF s = <<>> THEN <<>>
    ELSE IF Head(s) = "\"" THEN <<"\"", "\"">> \o doubleQuotes(Tail(s))
    ELSE <<Head(s)>> \o doubleQuotes(Tail(s))

escapeCSVCell(value) ==
    IF Falsy(value) THEN <<>>
    ELSE IF \E i \in 1..Len(value) : value[i] \in EscapeChars
         THEN <<"\"">> \o doubleQuotes(value) \o <<"\"">>
         ELSE value

\* part_003: generateCSV and the Papa.parse based parseCSV

\* cells.join(sep)
RECURSIVE JoinCells(_, _)
JoinCells(cells, sep) ==
    IF cells = <<>> THEN <<>>
    ELSE IF Len(cells) = 1 THEN cells[1]
    ELSE cells[1] \o sep \o JoinCells(Tail(cells), sep)

\* generateCSV(data) without headers: the keys of the first row are the
\* header names
generateCSV(rows) ==
    IF Len(rows) = 0 THEN <<>>
    ELSE LET keys == [c \in 1..Len(rows[1]) |-> rows[1][c][1]]
             headerRow == JoinCells([c \in 1..Len(keys) |-> escapeCSVCell(keys[c])],
                                    <<",">>)
             dataRow(row) ==
                 JoinCells([c \in 1..Len(keys) |->
                               escapeCSVCell(IF Falsy(Get(row, keys[c]))
                                             THEN <<>> ELSE Get(row, keys[c]))],
                           <<",">>)
         IN  JoinCells(<<headerRow>> \o [r \in 1..Len(rows) |-> dataRow(rows[r])],
                       <<"\n">>)

\* Papa.parse(csvString) on comma-delimited text with "\n" between the rows:
\* a field that opens with a quote runs to its closing quote, "" inside it
\* is one quote, and delimiters and line breaks inside it belong to the
\* field.  mode is "start" at the first character of a field, "quoted"
\* inside a quoted field, "plain" elsewhere.
RECURSIVE papaRowsFrom(_, _, _, _, _, _)
papaRowsFrom(input, i, rows, row, field, mode) ==
    IF i > Len(input) THEN Append(rows, Append(row, field))
    ELSE LET char == input[i]
             nextChar == IF i + 1 <= Len(input) THEN input[i + 1] ELSE "<undefined>"
         IN  IF mode = "quoted"
             THEN IF char = "\"" /\ nextChar = "\""
                  THEN papaRowsFrom(input, i + 2, rows, row, Append(field, "\""), "quoted")
                  ELSE IF char = "\""
                  THEN papaRowsFrom(input, i + 1, rows, row, field, "plain")
                  ELSE papaRowsFrom(input, i + 1, rows, row, Append(field, char), "quoted")
             ELSE IF char = "\"" /\ mode = "start"
             THEN papaRowsFrom(input, i + 1, rows, row, field, "quoted")
             ELSE IF char = ","
             THEN papaRowsFrom(input, i + 1, rows, Append(row, field), <<>>, "start")
             ELSE IF char = "\n"
             THEN papaRowsFrom(input, i + 1, Append(rows, Append(row, field)),
                               <<>>, <<>>, "start")
             ELSE papaRowsFrom(input, i + 1, rows, row, Append(field, char), "plain")

papaRows(input) == papaRowsFrom(input, 1, <<>>, <<>>, <<>>, "start")

\* skipEmptyLines: 'greedy' drops a row whose fields are all blank
papaEmptyLine(row) == trim(JoinCells(row, <<>>)) = <<>>

\* header: true with transformHeader and transform: value => value.trim()
RECURSIVE papaObject(_, _, _)
papaObject(headers, fields, n) ==
    IF n = 0 THEN <<>>
    ELSE Put(papaObject(headers, fields, n - 1), trim(headers[n]), trim(fields[n]))

\* parseCSV of part_003 (the same code is parseCSV of part_002)
parseCSV003(csvString) ==
    IF Falsy(csvString) THEN <<>>
    ELSE LET kept == SelectSeq(papaRows(csvString), LAMBDA row : ~papaEmptyLine(row))
         IN  IF Len(kept) = 0 THEN <<>>
             ELSE [k \in 1..(Len(kept) - 1) |->
                     papaObject(kept[1], kept[k + 1],
                                IF Len(kept[k + 1]) < Len(kept[1])
                                THEN Len(kept[k + 1]) ELSE Len(kept[1]))]

mergeRowsEscField(target, source, excludeKey, field, value) ==
    LET t == Get(target, field) IN
    IF field = excludeKey \/ trim(value) = <<>> THEN target
    ELSE IF Falsy(t) \/ trim(t) = <<>> THEN Put(target, field, value)
    ELSE IF t # value
         THEN IF field \in LatestWinsFields
              THEN Put(target, field,
                       selectLatestValue(
                           [value |-> t, timestamp |-> Get(target, UpdatedAt)],
                           [value |-> value, timestamp |-> Get(source, UpdatedAt)]))
              ELSE Put(target, field, escapeCSVCell(CommaJoin(t, value)))
         ELSE target

RECURSIVE mergeRowsEscFrom(_, _, _, _)
mergeRowsEscFrom(target, source, excludeKey, i) ==
    IF i > Len(source) THEN target
    ELSE mergeRowsEscFrom(
             mergeRowsEscField(target, source, excludeKey, source[i][1], source[i][2]),
             source, excludeKey, i + 1)

\* mergeRows of part_003: the ", " join goes through escapeCSVCell
mergeRowsEsc(target, source, excludeKey) ==
    mergeRowsEscFrom(target, source, excludeKey, 1)

\* ------------------------------------------------------------------ part_002

\* NFKC on the characters of the model: a full-width letter folds to its
\* ASCII letter, the ideographic space to a space.
NFKC(c) ==
    IF c = "wA" THEN "A"
    ELSE IF c = "wa" THEN "a"
    ELSE IF c = "wsp" THEN " "
    ELSE c

toLowerCase(c) ==
    IF c = "A" THEN "a"
    ELSE IF c = "B" THEN "b"
    ELSE IF c = "wA" THEN "wa"
    ELSE c

RECURSIVE MapChars(_, _)
MapChars(s, which) ==
    IF s = <<>> THEN <<>>
    ELSE <<IF which = "nfkc" THEN NFKC(Head(s)) ELSE toLowerCase(Head(s))>>
             \o MapChars(Tail(s), which)

RECURSIVE removeWhiteSpace(_)
removeWhiteSpace(s) ==
    IF s = <<>> THEN <<>>
    ELSE IF Head(s) \in WhiteSpace THEN removeWhiteSpace(Tail(s))
    ELSE <<Head(s)>> \o removeWhiteSpace(Tail(s))

\* normalizeString without the NFKC step
normalizeStringNoNFKC(value) ==
    removeWhiteSpace(MapChars(trim(value), "lower"))

\* value.trim().normalize('NFKC').toLowerCase().replace(/[\s　]+/g, '')
normalizeString(value) ==
    removeWhiteSpace(MapChars(MapChars(trim(value), "nfkc"), "lower"))

\* the literals of part_002: 'ステータス', '役職', '部署' and '更新日時'
LatestWinsFields002 == {"sutetasu", "yakushoku", "busho"}
UpdatedAt002 == "koushin_nichiji"

\* new Date(row['更新日時'] || '').getTime()
DateOf002(row) ==
    LET v == Get(row, UpdatedAt002) IN DateTime(IF Falsy(v) THEN <<>> ELSE v)

\* one iteration of the inner forEach of the linked-map construction
foldRow002Field(existingRow, row, linkedKey, field, value) ==
    LET e == Get(existingRow, field) IN
    IF field # linkedKey /\ trim(value) # <<>>
    THEN IF Falsy(e) \/ trim(e) = <<>> THEN Put(existingRow, field, value)
         ELSE IF normalizeString(e) # normalizeString(value)
              THEN IF field \in LatestWinsFields002
                   THEN IF DateGt(DateOf002(row), DateOf002(existingRow))
                        THEN Put(existingRow, field, value)
                        ELSE existingRow
                   ELSE Put(existingRow, field, CommaJoin(e, value))
              ELSE existingRow
    ELSE existingRow

RECURSIVE foldRow002From(_, _, _, _)
foldRow002From(existingRow, row, linkedKey, i) ==
    IF i > Len(row) THEN existingRow
    ELSE foldRow002From(
             foldRow002Field(existingRow, row, linkedKey, row[i][1], row[i][2]),
             row, linkedKey, i + 1)

\* the fold of a later linked row into the row the map holds for its key
foldRow002(existingRow, row, linkedKey) == foldRow002From(existingRow, row, linkedKey, 1)

\* one iteration of the forEach that overlays the linked row on the copy of
\* the main row
overlayRow002Field(result, linkedRow, linkedKey, field, value) ==
    LET m == Get(result, field) IN
    IF field # linkedKey /\ trim(value) # <<>>
    THEN IF Falsy(m) \/ trim(m) = <<>> THEN Put(result, field, value)
         ELSE IF normalizeString(m) # normalizeString(value)
              THEN IF field \in LatestWinsFields002
                   THEN IF DateGt(DateOf002(linkedRow), DateOf002(result))
                        THEN Put(result, field, value)
                        ELSE result
                   ELSE Put(result, field, CommaJoin(m, value))
              ELSE result
    ELSE result

RECURSIVE overlayRow002From(_, _, _, _)
overlayRow002From(result, linkedRow, linkedKey, i) ==
    IF i > Len(linkedRow) THEN result
    ELSE overlayRow002From(
             overlayRow002Field(result, linkedRow, linkedKey,
                                linkedRow[i][1], linkedRow[i][2]),
             linkedRow, linkedKey, i + 1)

overlayRow002(result, linkedRow, linkedKey) ==
    overlayRow002From(result, linkedRow, linkedKey, 1)

\* the value of a slot that was never assigned: a row that was skipped or
\* found no partner
None == <<"<none>">>

\* ------------------------------------------------------------------ the overlay on the main rows

\* { ...a, ...b }
RECURSIVE Spread(_, _)
Spread(a, b) ==
    IF b = <<>> THEN a
    ELSE Spread(Put(a, Head(b)[1], Head(b)[2]), Tail(b))

\* the overlay with target and source exchanged: mergeRows(linkedRow, result)
overlayOntoLinkedRow(mainRow, linkedRow, linkedKey) ==
    [result |-> mainRow, linkedRow |-> mergeRows(linkedRow, mainRow, linkedKey)]

\* csvUtils.ts: const result = { ...mainRow }; mergeRows(result, linkedRow,
\* linkedKey): the call writes to result, the object the map holds is read
overlayOnto(mainRow, linkedRow, linkedKey) ==
    [result |-> mergeRows(mainRow, linkedRow, linkedKey), linkedRow |-> linkedRow]

\* the overlay of the three versions: the output record and the object the
\* map holds afterwards
overlayStep(version, mainRow, linkedRow, linkedKey) ==
    IF version = "mergeCSVData" THEN overlayOnto(mainRow, linkedRow, linkedKey)
    ELSE IF version = "mergeCSVData002"
    THEN [result |-> overlayRow002(mainRow, linkedRow, linkedKey),
          linkedRow |-> linkedRow]
    ELSE [result |-> Spread(mainRow, linkedRow), linkedRow |-> linkedRow]

\* the key a main row is looked up under
lookupKey(version, mainRow, mainKey) ==
    IF version = "mergeCSVData002" /\ ~Falsy(Get(mainRow, mainKey))
    THEN normalizeString(Get(mainRow, mainKey))
    ELSE Get(mainRow, mainKey)

\* the main row finds a linked record in the map
foundIn(version, map, mainRow, mainKey) ==
    /\ version = "mergeCSVData002" => ~Falsy(Get(mainRow, mainKey))
    /\ Has(map, lookupKey(version, mainRow, mainKey))

\* mainData.map(mainRow => ...) over the first n main rows, in order: the
\* output records and the map as the overlays leave it
RECURSIVE overlayMain(_, _, _, _, _, _)
overlayMain(version, map, mainData, mainKey, linkedKey, n) ==
    IF n = 0 THEN [rows |-> <<>>, map |-> map]
    ELSE LET prev == overlayMain(version, map, mainData, mainKey, linkedKey, n - 1)
             mainRow == mainData[n]
             key == lookupKey(version, mainRow, mainKey)
         IN  IF foundIn(version, prev.map, mainRow, mainKey)
             THEN LET step == overlayStep(version, mainRow, Get(prev.map, key), linkedKey)
                  IN  [rows |-> Append(prev.rows, step.result),
                       map |-> Put(prev.map, key, step.linkedRow)]
             ELSE [rows |-> Append(prev.rows, mainRow), map |-> prev.map]

\* ------------------------------------------------------------------ csvUtils.ts: mergeCSVData

\* The linked-map construction after the first n rows of linkedData: the
\* Map (an entry list keyed by row[linkedKey], which is undefined when the
\* row has no such field) and, per row, the key it was stored under.
RECURSIVE buildLinkedMap(_, _, _)
buildLinkedMap(linkedData, linkedKey, n) ==
    IF n = 0 THEN [map |-> <<>>, slot |-> <<>>]
    ELSE LET prev == buildLinkedMap(linkedData, linkedKey, n - 1)
             row == linkedData[n]
             key == Get(row, linkedKey)
         IN  [map |-> IF ~Has(prev.map, key)
                      THEN Put(prev.map, key, row)
                      ELSE Put(prev.map, key, mergeRows(Get(prev.map, key), row, NoKey)),
              slot |-> Append(prev.slot, key)]

\* mergeCSVData of csvUtils.ts (and of part_003, with mergeRowsEsc): the
\* returned array, the final linkedMap and the keys used
mergeCSVData(mainData, linkedData, mainKey, linkedKey) ==
    LET built == buildLinkedMap(linkedData, linkedKey, Len(linkedData))
        keyOf(mainRow) == Get(mainRow, mainKey)
        over == overlayMain("mergeCSVData", built.map, mainData, mainKey, linkedKey,
                            Len(mainData))
    IN  [merged |-> over.rows,
         linkedMap |-> over.map,
         mainSlot |-> [i \in 1..Len(mainData) |->
                        IF Has(built.map, keyOf(mainData[i]))
                        THEN keyOf(mainData[i]) ELSE None],
         linkedSlot |-> built.slot,
         \* mainData.map builds a new array, { ...mainRow } a new object
         returnedArray |-> "new array",
         returnedRows |-> [i \in 1..Len(mainData) |-> "new object"]]

\* ------------------------------------------------------------------ part_002: mergeCSVData

RECURSIVE buildLinkedMap002(_, _, _)
buildLinkedMap002(linkedData, linkedKey, n) ==
    IF n = 0 THEN [map |-> <<>>, slot |-> <<>>]
    ELSE LET prev == buildLinkedMap002(linkedData, linkedKey, n - 1)
             row == linkedData[n]
             key == Get(row, linkedKey)
             normalizedKey == normalizeString(key)
         IN  IF Falsy(key) THEN [map |-> prev.map, slot |-> Append(prev.slot, None)]
             ELSE [map |-> IF ~Has(prev.map, normalizedKey)
                           THEN Put(prev.map, normalizedKey, row)
                           ELSE Put(prev.map, normalizedKey,
                                    foldRow002(Get(prev.map, normalizedKey), row, linkedKey)),
                   slot |-> Append(prev.slot, normalizedKey)]

\* the two early returns: `return mainData`
passThrough002(mainData, linkedData, mainKey, linkedKey) ==
    \/ Len(mainData) = 0
    \/ Falsy(Get(mainData[1], mainKey))
    \/ Len(linkedData) = 0
    \/ Falsy(Get(linkedData[1], linkedKey))

mergeCSVData002(mainData, linkedData, mainKey, linkedKey) ==
    IF passThrough002(mainData, linkedData, mainKey, linkedKey)
    THEN [merged |-> mainData,
          linkedMap |-> <<>>,
          mainSlot |-> [i \in 1..Len(mainData) |-> None],
          linkedSlot |-> [j \in 1..Len(linkedData) |-> None],
          \* return mainData: the argument itself
          returnedArray |-> "mainData",
          returnedRows |-> [i \in 1..Len(mainData) |-> "mainRow"]]
    ELSE
    LET built == buildLinkedMap002(linkedData, linkedKey, Len(linkedData))
        found(mainRow) ==
            /\ ~Falsy(Get(mainRow, mainKey))
            /\ Has(built.map, normalizeString(Get(mainRow, mainKey)))
        over == overlayMain("mergeCSVData002", built.map, mainData, mainKey,
                            linkedKey, Len(mainData))
    IN  [merged |-> over.rows,
         linkedMap |-> over.map,
         mainSlot |-> [i \in 1..Len(mainData) |->
                        IF found(mainData[i])
                        THEN normalizeString(Get(mainData[i], mainKey)) ELSE None],
         linkedSlot |-> built.slot,
         \* `return mainRow` on a miss, `{ ...mainRow }` on a match
         returnedArray |-> "new array",
         returnedRows |-> [i \in 1..Len(mainData) |->
                            IF found(mainData[i]) THEN "new object" ELSE "mainRow"]]

\* ------------------------------------------------------------------ App.tsx: the inline join

\* Object.entries(row).forEach: fill the fields the existing row holds no
\* non-blank value for
RECURSIVE fillFrom(_, _, _)
fillFrom(existing, row, i) ==
    IF i > Len(row) THEN existing
    ELSE LET col == row[i][1]
             val == row[i][2]
             e == Get(existing, col)
         IN  fillFrom(IF Falsy(e) \/ trim(e) = <<>> THEN Put(existing, col, val)
                      ELSE existing,
                      row, i + 1)

\* the two nested for loops over linkedDataArrays, on the rows of all
\* arrays in order
RECURSIVE linkedFold(_, _, _)
linkedFold(rows, linkedKey, n) ==
    IF n = 0 THEN [map |-> <<>>, slot |-> <<>>]
    ELSE LET prev == linkedFold(rows, linkedKey, n - 1)
             row == rows[n]
             key == Get(row, linkedKey)
         IN  IF Falsy(key) THEN [map |-> prev.map, slot |-> Append(prev.slot, None)]
             ELSE [map |-> IF ~Has(prev.map, key)
                           THEN Put(prev.map, key, row)
                           ELSE Put(prev.map, key, fillFrom(Get(prev.map, key), row, 1)),
                   slot |-> Append(prev.slot, key)]

RECURSIVE Flatten(_)
Flatten(arrays) ==
    IF arrays = <<>> THEN <<>> ELSE Head(arrays) \o Flatten(Tail(arrays))

\* lines 51-74 of App.tsx: linkedDataMap and the map over mergedMainData
crossJoinInline(mergedMainData, linkedDataArrays, mainKey, linkedKey) ==
    LET rows == Flatten(linkedDataArrays)
        built == linkedFold(rows, linkedKey, Len(rows))
        keyOf(mainRow) == Get(mainRow, mainKey)
        over == overlayMain("crossJoinInline", built.map, mergedMainData, mainKey,
                            linkedKey, Len(mergedMainData))
    IN  [merged |-> over.rows,
         linkedMap |-> over.map,
         mainSlot |-> [i \in 1..Len(mergedMainData) |->
                        IF Has(built.map, keyOf(mergedMainData[i]))
                        THEN keyOf(mergedMainData[i]) ELSE None],
         linkedSlot |-> built.slot,
         \* linkedRow ? { ...mainRow, ...linkedRow } : mainRow
         returnedArray |-> "new array",
         returnedRows |-> [i \in 1..Len(mergedMainData) |->
                            IF Has(built.map, keyOf(mergedMainData[i]))
                            THEN "new object" ELSE "mainRow"]]

\* ------------------------------------------------------------------ App.tsx / part_001: handleFileUpload

\* values.join(delimiter)
RECURSIVE JoinWith(_, _)
JoinWith(values, delimiter) ==
    IF values = <<>> THEN <<>>
    ELSE IF Len(values) = 1 THEN Head(values)
    ELSE Head(values) \o delimiter \o JoinWith(Tail(values), delimiter)

\* baseColumns.forEach(col => filteredRow[col] = row[col] || '')
projectRow(row, baseColumns) ==
    [c \in 1..Len(baseColumns) |->
        <<baseColumns[c],
          IF Falsy(Get(row, baseColumns[c])) THEN <<>> ELSE Get(row, baseColumns[c])>>]

\* Object.keys(row) in order
KeySeq(row) == [c \in 1..Len(row) |-> row[c][1]]

\* the loop over mainDataArrays[1..]: the first array, then the rows of
\* the later arrays projected on baseColumns
RECURSIVE rowUnion(_, _, _)
rowUnion(mainDataArrays, baseColumns, n) ==
    IF n = 1 THEN mainDataArrays[1]
    ELSE rowUnion(mainDataArrays, baseColumns, n - 1)
            \o [r \in 1..Len(mainDataArrays[n]) |->
                    projectRow(mainDataArrays[n][r], baseColumns)]

\* combineColumn reading the source values from the copy that is written
combineColumnFromCombinedRow(combinedRow, row, col) ==
    IF "combine" \notin DOMAIN col THEN combinedRow
    ELSE LET picked == [k \in 1..Len(col.combine.columns) |->
                            Get(combinedRow, col.combine.columns[k])]
             values == SelectSeq(picked, LAMBDA v : ~Falsy(v) /\ trim(v) # <<>>)
             delimiter == IF Falsy(col.combine.delimiter)
                          THEN <<" ">> ELSE col.combine.delimiter
         IN  Put(combinedRow, col.key, JoinWith(values, delimiter))

\* one gridColumns.forEach step of the combine pass: row is the record
\* before the pass, combinedRow the copy that is written
combineColumn(combinedRow, row, col) ==
    IF "combine" \notin DOMAIN col THEN combinedRow
    ELSE LET picked == [k \in 1..Len(col.combine.columns) |->
                            Get(row, col.combine.columns[k])]
             values == SelectSeq(picked, LAMBDA v : ~Falsy(v) /\ trim(v) # <<>>)
             delimiter == IF Falsy(col.combine.delimiter)
                          THEN <<" ">> ELSE col.combine.delimiter
         IN  Put(combinedRow, col.key, JoinWith(values, delimiter))

RECURSIVE combineRow(_, _, _, _)
combineRow(combinedRow, row, gridColumns, n) ==
    IF n > Len(gridColumns) THEN combinedRow
    ELSE combineRow(combineColumn(combinedRow, row, gridColumns[n]),
                    row, gridColumns, n + 1)

\* Array.from(new Set([...Object.keys(finalData[0]), ...gridColumns keys]))
RECURSIVE Dedup(_)
Dedup(names) ==
    IF names = <<>> THEN <<>>
    ELSE LET front == Dedup(SubSeq(names, 1, Len(names) - 1))
             last == names[Len(names)]
         IN  IF \E k \in 1..Len(front) : front[k] = last
             THEN front ELSE Append(front, last)

\* What one run of handleFileUpload leaves behind.  version selects the join:
\* "App.tsx" is the inline code of App.tsx, "part_001" the call of
\* mergeCSVData on the concatenated linked arrays.  availableColumns is None
\* where the handler does not set it.
handleFileUploadWith(version, mainFiles, linkedFiles, gridColumns, mainKey, linkedKey) ==
    LET joinWith(mergedMain, linkedDataArrays) ==
            IF version = "App.tsx"
            THEN crossJoinInline(mergedMain, linkedDataArrays, mainKey, linkedKey)
            ELSE mergeCSVData(mergedMain, Flatten(linkedDataArrays),
                              mainKey, linkedKey)
        idleJoin == [merged |-> None, linkedMap |-> None,
                     mainSlot |-> None, linkedSlot |-> None]
    IN
    IF Len(mainFiles) = 0
    THEN [data |-> <<>>, availableColumns |-> None, threw |-> FALSE,
          mergedMainData |-> None, join |-> idleJoin]
    ELSE IF Len(mainFiles[1]) = 0
    \* Object.keys(mainDataArrays[0][0]) of undefined: TypeError, the catch block
    THEN [data |-> <<>>, availableColumns |-> <<>>, threw |-> TRUE,
          mergedMainData |-> None, join |-> idleJoin]
    ELSE
    LET baseColumns == KeySeq(mainFiles[1][1])
        mergedMainData == rowUnion(mainFiles, baseColumns, Len(mainFiles))
        join == IF Len(linkedFiles) > 0
                THEN joinWith(mergedMainData, linkedFiles)
                ELSE idleJoin
        joined == IF Len(linkedFiles) > 0 THEN join.merged ELSE mergedMainData
        finalData == [r \in 1..Len(joined) |->
                        combineRow(joined[r], joined[r], gridColumns, 1)]
    IN  [data |-> finalData,
         availableColumns |->
            IF Len(finalData) > 0
            THEN Dedup(KeySeq(finalData[1])
                       \o [c \in 1..Len(gridColumns) |-> gridColumns[c].key])
            ELSE <<>>,
         threw |-> FALSE,
         mergedMainData |-> mergedMainData,
         join |-> join]

\* ------------------------------------------------------------------ DataGrid.tsx (both versions)

\* the initial value null of the sortField state
NullField == "<null>"

\* String.prototype.includes
includes(s, v) ==
    \E k \in 1..(Len(s) - Len(v) + 1) : SubSeq(s, k, k + Len(v) - 1) = v

\* String.prototype.toLowerCase
lowerCase(s) == MapChars(s, "lower")

\* row[key] || ''
cellValue(row, key) == IF Falsy(Get(row, key)) THEN <<>> ELSE Get(row, key)

\* Object.entries(filters).every(...): the include filters
includeFilterResult(row, fs) ==
    \A i \in 1..Len(fs) :
        \/ Falsy(fs[i][2])
        \/ includes(lowerCase(cellValue(row, fs[i][1])), lowerCase(fs[i][2]))

\* Object.entries(excludeFilters).every(...): the exclude filters
excludeFilterResult(row, fs) ==
    \A i \in 1..Len(fs) :
        \/ Falsy(fs[i][2])
        \/ ~includes(lowerCase(cellValue(row, fs[i][1])), lowerCase(fs[i][2]))

\* Object.values(row).join(' ').toLowerCase().includes(globalSearch.toLowerCase())
globalSearchResult(row, search) ==
    \/ Falsy(search)
    \/ includes(lowerCase(JoinWith([i \in 1..Len(row) |-> row[i][2]], <<" ">>)),
                lowerCase(search))

\* filteredData: data.filter(...) builds a new array and leaves data alone
filteredData(version, rows, fs, xfs, search) ==
    IF version = "first"
    THEN SelectSeq(rows, LAMBDA row : includeFilterResult(row, fs))
    ELSE SelectSeq(rows, LAMBDA row :
            /\ globalSearchResult(row, search)
            /\ includeFilterResult(row, fs)
            /\ excludeFilterResult(row, xfs))

\* the primary collation weight of a character: white space, punctuation,
\* then the letters, upper and lower case alike
CharWeight(c) ==
    IF c \in WhiteSpace THEN 1
    ELSE IF c = "," THEN 2
    ELSE IF c \in {"a", "A"} THEN 3
    ELSE IF c \in {"b", "B"} THEN 4
    ELSE 5

\* the comparison of two strings by primary weights, -1, 0 or 1
RECURSIVE comparePrimary(_, _)
comparePrimary(u, v) ==
    IF u = <<>> /\ v = <<>> THEN 0
    ELSE IF u = <<>> THEN -1
    ELSE IF v = <<>> THEN 1
    ELSE IF CharWeight(Head(u)) < CharWeight(Head(v)) THEN -1
    ELSE IF CharWeight(Head(u)) > CharWeight(Head(v)) THEN 1
    ELSE comparePrimary(Tail(u), Tail(v))

\* the comparison of two strings of equal primary weights by case, lower
\* case first
RECURSIVE compareCase(_, _)
compareCase(u, v) ==
    IF u = <<>> \/ v = <<>> THEN 0
    ELSE IF Head(u) = Head(v) THEN compareCase(Tail(u), Tail(v))
    ELSE IF toLowerCase(Head(u)) = Head(u) THEN -1
    ELSE 1

\* String.prototype.localeCompare; sensitivity "base" compares the primary
\* weights only, the default ("variant") breaks their ties by case
localeCompare(u, v, sensitivity) ==
    IF comparePrimary(u, v) # 0 \/ sensitivity = "base" THEN comparePrimary(u, v)
    ELSE compareCase(u, v)

\* String(value).split(',')[0]
RECURSIVE beforeComma(_)
beforeComma(s) ==
    IF s = <<>> \/ Head(s) = "," THEN <<>>
    ELSE <<Head(s)>> \o beforeComma(Tail(s))

\* first version, the comparator of sortData: the first of the comma
\* separated values of the field, trimmed, compared in the locale 'ja' with
\* sensitivity 'base'
compareFirstValues(a, b, field, direction) ==
    IF direction = "asc"
    THEN localeCompare(trim(beforeComma(cellValue(a, field))),
                       trim(beforeComma(cellValue(b, field))), "base")
    ELSE localeCompare(trim(beforeComma(cellValue(b, field))),
                       trim(beforeComma(cellValue(a, field))), "base")

\* second version, the comparator of sortedData: the cell values here hold
\* no digits, so Number(value) is 0 for a value of white space only and NaN
\* for every other value
compareValues(a, b, field, direction) ==
    IF trim(cellValue(a, field)) = <<>> /\ trim(cellValue(b, field)) = <<>>
    THEN 0
    ELSE localeCompare(cellValue(a, field), cellValue(b, field), "variant")
            * (IF direction = "asc" THEN 1 ELSE -1)

compareRows(version, a, b, field, direction) ==
    IF version = "first" THEN compareFirstValues(a, b, field, direction)
    ELSE compareValues(a, b, field, direction)

\* Array.prototype.sort is stable: a row is placed before the first row
\* that compares greater than it
RECURSIVE insertRow(_, _, _, _, _)
insertRow(version, sorted, row, field, direction) ==
    IF sorted = <<>> THEN <<row>>
    ELSE IF compareRows(version, row, Head(sorted), field, direction) < 0
    THEN <<row>> \o sorted
    ELSE <<Head(sorted)>> \o insertRow(version, Tail(sorted), row, field, direction)

\* [...rows].sort(comparator): a sorted copy
RECURSIVE sortRows(_, _, _, _)
sortRows(version, rows, field, direction) ==
    IF rows = <<>> THEN <<>>
    ELSE insertRow(version,
                   sortRows(version, SubSeq(rows, 1, Len(rows) - 1), field, direction),
                   rows[Len(rows)], field, direction)

\* sortedData, the rows the grid displays: the first version sorts by
\* sortField || '', the second returns filteredData when !sortField
sortedData(version, rows, field, direction) ==
    IF version = "first"
    THEN sortRows(version, rows, IF field = NullField THEN "" ELSE field, direction)
    ELSE IF field = NullField \/ field = "" THEN rows
    ELSE sortRows(version, rows, field, direction)

\* one render of the grid
render(version, rows, field, direction, fs, xfs, search) ==
    sortedData(version, filteredData(version, rows, fs, xfs, search), field, direction)

\* ------------------------------------------------------------------ state

VARIABLES
    ran,            \* the operation that has run, "none" before the call
    target,         \* reconcile: the target object, mutated by the call
    source,         \* reconcile: the source object
    excludeKey,     \* reconcile: the excluded field (linkedKey in part_002)
    targetAtCall,   \* reconcile: the target as it was when the call was made
    sourceAtCall,   \* reconcile: the source as it was when the call was made
    mainData,       \* join: the mainData argument
    linkedData,     \* join: the linkedData argument
    mainKey,        \* join: the mainKey argument (mergeConfig.mainKey)
    linkedKey,      \* join: the linkedKey argument (mergeConfig.linkedKey)
    merged,         \* join: the returned array
    linkedMap,      \* join: the linked map when the call returns
    mainSlot,       \* join: per main row, the map key it found a row under
    linkedSlot,     \* join: per linked row, the map key it was stored under
    mainDataAtCall, \* join: mainData as it was when the call was made
    linkedDataAtCall, \* join: linkedData as it was when the call was made
    returnedArray,  \* join: the array returned, "mainData" or "new array"
    returnedRows,   \* join: per returned row, "mainRow" (the input object) or "new object"
    mainFiles,      \* upload: the parsed main files, in the order supplied
    linkedFiles,    \* upload: the parsed linked files, in the order supplied
    gridColumns,    \* upload: gridConfig.gridColumns
    data,           \* App state: data
    availableColumns, \* App state: availableColumns
    threw,          \* upload: the catch block ran
    finalData,      \* combine pass: the records the pass maps over
    table,          \* csv: the records the text was generated from
    value,          \* csv: the string serialized as one cell
    csvString,      \* csv: the CSV text
    line,           \* csv: the serialized cell
    parsed,         \* csv: what the parser returned
    keyA,           \* normalize: a key string
    keyB,           \* normalize: another spelling of the same key
    normalized,     \* normalize: normalizeString of keyA and of keyB
    renormalized,   \* normalize: normalizeString of the two results
    pc,             \* loading: where handleFileUpload stands
    loadVersion,    \* loading: the version of handleFileUpload that runs
    mainPending,    \* loading: the main files whose read is in flight
    linkedPending,  \* loading: the linked files whose read is in flight
    mainDataArrays, \* loading: what Promise.all has collected of the main files
    linkedDataArrays, \* loading: what Promise.all has collected of the linked files
    completed,      \* loading: the reads in the order they completed
    gridVersion,    \* grid: the version of DataGrid that is mounted
    sortField,      \* grid state: sortField
    sortDirection,  \* grid state: sortDirection
    filters,        \* grid state: filters
    excludeFilters, \* grid state: excludeFilters (second version)
    globalSearch,   \* grid state: globalSearch (second version)
    dataAtMount,    \* grid: the data prop as it was when the grid was mounted
    displayed,      \* grid: sortedData of the last render
    sessionVersion, \* session: the version of handleFileUpload the App runs
    inFlight,       \* session: the invocations of handleFileUpload that await a read
    overlapped,     \* session: an invocation was made while another was in flight
    eventCount      \* session: the number of file additions and removals so far

reconVars == <<target, source, excludeKey, targetAtCall, sourceAtCall>>
joinVars == <<mainData, linkedData, mainKey, linkedKey, merged, linkedMap,
              mainSlot, linkedSlot, mainDataAtCall, linkedDataAtCall,
              returnedArray, returnedRows>>
uploadVars == <<mainFiles, linkedFiles, gridColumns, data, availableColumns, threw>>
composeVars == <<finalData>>
parseVars == <<table, value, csvString, line, parsed>>
normVars == <<keyA, keyB, normalized, renormalized>>
loadVars == <<pc, loadVersion, mainPending, linkedPending, mainDataArrays,
              linkedDataArrays, completed>>
gridVars == <<gridVersion, sortField, sortDirection, filters, excludeFilters,
              globalSearch, dataAtMount, displayed>>
sessionVars == <<sessionVersion, inFlight, overlapped, eventCount>>
extraVars == <<composeVars, parseVars, normVars, loadVars, gridVars, sessionVars>>
vars == <<ran, reconVars, joinVars, uploadVars, extraVars>>

reconIdle ==
    /\ target = None
    /\ source = None
    /\ excludeKey = NoKey
    /\ targetAtCall = None
    /\ sourceAtCall = None

joinIdle ==
    /\ mainData = <<>>
    /\ linkedData = <<>>
    /\ mainKey = NoKey
    /\ linkedKey = NoKey
    /\ merged = None
    /\ linkedMap = None
    /\ mainSlot = None
    /\ linkedSlot = None
    /\ mainDataAtCall = None
    /\ linkedDataAtCall = None
    /\ returnedArray = None
    /\ returnedRows = None

uploadIdle ==
    /\ mainFiles = <<>>
    /\ linkedFiles = <<>>
    /\ gridColumns = <<>>
    /\ data = <<>>
    /\ availableColumns = <<>>
    /\ threw = FALSE

composeIdle ==
    /\ finalData = <<>>

parseIdle ==
    /\ table = <<>>
    /\ value = <<>>
    /\ csvString = <<>>
    /\ line = <<>>
    /\ parsed = None

normIdle ==
    /\ keyA = <<>>
    /\ keyB = <<>>
    /\ normalized = None
    /\ renormalized = None

loadIdle ==
    /\ pc = "idle"
    /\ loadVersion = None
    /\ mainPending = {}
    /\ linkedPending = {}
    /\ mainDataArrays = <<>>
    /\ linkedDataArrays = <<>>
    /\ completed = <<>>

gridIdle ==
    /\ gridVersion = None
    /\ sortField = NullField
    /\ sortDirection = None
    /\ filters = None
    /\ excludeFilters = None
    /\ globalSearch = None
    /\ dataAtMount = None
    /\ displayed = None

sessionIdle ==
    /\ sessionVersion = None
    /\ inFlight = <<>>
    /\ overlapped = FALSE
    /\ eventCount = 0

extraIdle ==
    /\ composeIdle
    /\ parseIdle
    /\ normIdle
    /\ loadIdle
    /\ sessionIdle
    /\ gridIdle

\* ------------------------------------------------------------------ inputs

\* a record from a list of entries, the absent fields left out
MkRec(entries) == SelectSeq(entries, LAMBDA e : e[2] # Undef)

\* The two spellings of the timestamped schema: the literals of
\* csvUtils.ts / part_003 and those of part_002.
Schemas ==
    { [lw |-> "status", ua |-> UpdatedAt],
      [lw |-> "sutetasu", ua |-> UpdatedAt002] }

TimestampValues == {Undef, <<>>, <<"d1">>, <<"d2">>, <<"x">>}
TargetLwValues == {Undef, <<>>, <<"A">>}
SourceLwValues == {Undef, <<"A">>, <<"B">>, <<"a">>}
TargetNameValues == {Undef, <<"A">>, <<" ">>}
SourceNameValues == {Undef, <<>>, <<"A">>, <<"B">>, <<"a">>}

\* ------------------------------------------------------------------ reconcile

InitReconcile ==
    /\ ran = "none"
    /\ \E sch \in Schemas, tl \in TargetLwValues, tu \in TimestampValues,
          tn \in TargetNameValues :
          target = MkRec(<< <<sch.lw, tl>>, <<sch.ua, tu>>, <<"name", tn>> >>)
    \* the source is a record of its own or the target's record itself
    /\ \/ source = target
       \/ \E sch \in Schemas, sl \in SourceLwValues, su \in TimestampValues,
             sn \in SourceNameValues, uaFirst \in BOOLEAN :
             source = MkRec(IF uaFirst
                            THEN << <<sch.ua, su>>, <<sch.lw, sl>>, <<"name", sn>> >>
                            ELSE << <<sch.lw, sl>>, <<sch.ua, su>>, <<"name", sn>> >>)
    /\ excludeKey \in {NoKey, "name"}
    /\ targetAtCall = target
    /\ sourceAtCall = source
    /\ joinIdle
    /\ uploadIdle
    /\ extraIdle

CallMergeRows ==
    /\ ran = "none"
    /\ target' = mergeRows(target, source, excludeKey)
    /\ ran' = "mergeRows"
    /\ UNCHANGED <<source, excludeKey, targetAtCall, sourceAtCall, joinVars,
                   uploadVars, extraVars>>

CallMergeRowsEsc ==
    /\ ran = "none"
    /\ target' = mergeRowsEsc(target, source, excludeKey)
    /\ ran' = "mergeRowsEsc"
    /\ UNCHANGED <<source, excludeKey, targetAtCall, sourceAtCall, joinVars,
                   uploadVars, extraVars>>

CallFoldRow002 ==
    /\ ran = "none"
    /\ target' = foldRow002(target, source, excludeKey)
    /\ ran' = "foldRow002"
    /\ UNCHANGED <<source, excludeKey, targetAtCall, sourceAtCall, joinVars,
                   uploadVars, extraVars>>

CallOverlayRow002 ==
    /\ ran = "none"
    /\ target' = overlayRow002(target, source, excludeKey)
    /\ ran' = "overlayRow002"
    /\ UNCHANGED <<source, excludeKey, targetAtCall, sourceAtCall, joinVars,
                   uploadVars, extraVars>>

NextReconcile ==
    \/ CallMergeRows
    \/ CallMergeRowsEsc
    \/ CallFoldRow002
    \/ CallOverlayRow002

SpecReconcile == InitReconcile /\ [][NextReconcile]_vars

\* ------------------------------------------------------------------ join

MaxMainRows == 2
MaxLinkedRows == 2

MainKeyValues == {<<>>, <<"A">>, <<"B">>}
LinkedKeyValues == {<<>>, <<"A">>, <<"a">>}

\* the values a column of a main file and of a linked file takes
MainValues(field) ==
    IF field = "id" THEN MainKeyValues ELSE {<<>>, <<"X">>}

LinkedValues(field) ==
    IF field \in {"id", "eid"} THEN LinkedKeyValues
    ELSE IF field = "name" THEN {<<"X">>, <<"Y">>}
    ELSE {<<"S">>, <<"T">>}

MainHeaders == { <<"id", "name">>, <<"name">> }
LinkedHeaders ==
    { <<"id", "dept">>, <<"id", "name">>, <<"eid", "dept">>, <<"eid", "id">> }

\* the values a column takes under a header of a linked file: beside the
\* key column "eid" the column "id" is a column of its own
LinkedValuesUnder(header, field) ==
    IF header = <<"eid", "id">> /\ field = "id" THEN {<<"A">>, <<"B">>}
    ELSE LinkedValues(field)

\* the rows parseCSV builds under a header: every header field, in header
\* order, with a value
MainRows(header) ==
    { [i \in 1..Len(header) |-> <<header[i], c[i]>>] :
        c \in { d \in [1..Len(header) -> {<<>>, <<"A">>, <<"B">>, <<"X">>}] :
                  \A i \in 1..Len(header) : d[i] \in MainValues(header[i]) } }

LinkedRows(header) ==
    { [i \in 1..Len(header) |-> <<header[i], c[i]>>] :
        c \in { d \in [1..Len(header) ->
                        {<<>>, <<"A">>, <<"a">>, <<"B">>, <<"X">>, <<"Y">>, <<"S">>, <<"T">>}] :
                  \A i \in 1..Len(header) : d[i] \in LinkedValuesUnder(header, header[i]) } }

MainDatasets(maxRows) ==
    UNION { [1..n -> MainRows(h)] : n \in 0..maxRows, h \in MainHeaders }

LinkedDatasets(maxRows) ==
    UNION { [1..n -> LinkedRows(h)] : n \in 0..maxRows, h \in LinkedHeaders }

InitJoin ==
    /\ ran = "none"
    /\ mainData \in MainDatasets(MaxMainRows)
    /\ linkedData \in LinkedDatasets(MaxLinkedRows)
    /\ mainKey = "id"
    /\ linkedKey \in {"id", "eid"}
    /\ merged = None
    /\ linkedMap = None
    /\ mainSlot = None
    /\ linkedSlot = None
    /\ mainDataAtCall = mainData
    /\ linkedDataAtCall = linkedData
    /\ returnedArray = None
    /\ returnedRows = None
    /\ reconIdle
    /\ uploadIdle
    /\ extraIdle

CallMergeCSVData ==
    LET r == mergeCSVData(mainData, linkedData, mainKey, linkedKey) IN
    /\ ran = "none"
    /\ ran' = "mergeCSVData"
    /\ merged' = r.merged
    /\ linkedMap' = r.linkedMap
    /\ mainSlot' = r.mainSlot
    /\ linkedSlot' = r.linkedSlot
    /\ returnedArray' = r.returnedArray
    /\ returnedRows' = r.returnedRows
    /\ UNCHANGED <<mainData, linkedData, mainKey, linkedKey, mainDataAtCall,
                   linkedDataAtCall, reconVars, uploadVars, extraVars>>

CallMergeCSVData002 ==
    LET r == mergeCSVData002(mainData, linkedData, mainKey, linkedKey) IN
    /\ ran = "none"
    /\ ran' = "mergeCSVData002"
    /\ merged' = r.merged
    /\ linkedMap' = r.linkedMap
    /\ mainSlot' = r.mainSlot
    /\ linkedSlot' = r.linkedSlot
    /\ returnedArray' = r.returnedArray
    /\ returnedRows' = r.returnedRows
    /\ UNCHANGED <<mainData, linkedData, mainKey, linkedKey, mainDataAtCall,
                   linkedDataAtCall, reconVars, uploadVars, extraVars>>

CallCrossJoinInline ==
    LET r == crossJoinInline(mainData, <<linkedData>>, mainKey, linkedKey) IN
    /\ ran = "none"
    /\ ran' = "crossJoinInline"
    /\ merged' = r.merged
    /\ linkedMap' = r.linkedMap
    /\ mainSlot' = r.mainSlot
    /\ linkedSlot' = r.linkedSlot
    /\ returnedArray' = r.returnedArray
    /\ returnedRows' = r.returnedRows
    /\ UNCHANGED <<mainData, linkedData, mainKey, linkedKey, mainDataAtCall,
                   linkedDataAtCall, reconVars, uploadVars, extraVars>>

\* the name of a finished call whose caller has written to a returned row
Written(call) ==
    IF call = "mergeCSVData" THEN "mergeCSVData, write"
    ELSE IF call = "mergeCSVData002" THEN "mergeCSVData002, write"
    ELSE "crossJoinInline, write"

\* The caller assigns to a field of a returned row.  A returned row that is
\* the input object itself is the same record as mainData[i].
WriteReturnedRow ==
    /\ ran \in {"mergeCSVData", "mergeCSVData002", "crossJoinInline"}
    /\ \E i \in 1..Len(merged) :
          /\ merged' = [merged EXCEPT ![i] = Put(merged[i], "name", <<"edited">>)]
          /\ mainData' = IF returnedRows[i] = "mainRow"
                         THEN [mainData EXCEPT ![i] = Put(mainData[i], "name", <<"edited">>)]
                         ELSE mainData
    /\ ran' = Written(ran)
    /\ UNCHANGED <<linkedData, mainKey, linkedKey, linkedMap, mainSlot, linkedSlot,
                   mainDataAtCall, linkedDataAtCall, returnedArray, returnedRows,
                   reconVars, uploadVars, extraVars>>

NextJoin ==
    \/ CallMergeCSVData
    \/ CallMergeCSVData002
    \/ CallCrossJoinInline
    \/ WriteReturnedRow

SpecJoin == InitJoin /\ [][NextJoin]_vars

\* ------------------------------------------------------------------ upload

MaxMainFiles == 3
MaxLinkedFiles == 2
MaxFileRows == 1

UploadKeyValues == {<<>>, <<"A">>}

UploadMainValues(field) ==
    IF field = "id" THEN UploadKeyValues
    ELSE IF field = "name" THEN {<<"X">>}
    ELSE {<<"S">>}

UploadLinkedValues(field) ==
    IF field = "id" THEN UploadKeyValues ELSE {<<"S">>, <<"T">>}

UploadMainHeaders == { <<"id", "name">>, <<"id", "dept">> }
UploadLinkedHeaders == { <<"id", "dept">> }

UploadMainRows(header) ==
    { [i \in 1..Len(header) |-> <<header[i], c[i]>>] :
        c \in { d \in [1..Len(header) -> {<<>>, <<"A">>, <<"X">>, <<"S">>}] :
                  \A i \in 1..Len(header) : d[i] \in UploadMainValues(header[i]) } }

UploadLinkedRows(header) ==
    { [i \in 1..Len(header) |-> <<header[i], c[i]>>] :
        c \in { d \in [1..Len(header) -> {<<>>, <<"A">>, <<"S">>, <<"T">>}] :
                  \A i \in 1..Len(header) : d[i] \in UploadLinkedValues(header[i]) } }

\* the arrays parseCSV returns: the rows of one file share its header
UploadMainDatasets ==
    UNION { [1..n -> UploadMainRows(h)] : n \in 0..MaxFileRows, h \in UploadMainHeaders }

UploadLinkedDatasets ==
    UNION { [1..n -> UploadLinkedRows(h)] : n \in 0..MaxFileRows, h \in UploadLinkedHeaders }

GridConfigs ==
    { <<>>,
      << [key |-> "id"],
         [key |-> "full",
          combine |-> [columns |-> <<"name", "dept">>, delimiter |-> <<>>]] >> }

InitUpload ==
    /\ ran = "none"
    /\ mainFiles \in UNION { [1..n -> UploadMainDatasets] : n \in 0..MaxMainFiles }
    /\ linkedFiles \in UNION { [1..n -> UploadLinkedDatasets] : n \in 0..MaxLinkedFiles }
    /\ gridColumns \in GridConfigs
    /\ mainKey = "id"
    /\ linkedKey = "id"
    /\ data = <<>>
    /\ availableColumns = <<>>
    /\ threw = FALSE
    /\ mainData = None
    /\ linkedData = None
    /\ merged = None
    /\ linkedMap = None
    /\ mainSlot = None
    /\ linkedSlot = None
    /\ mainDataAtCall = None
    /\ linkedDataAtCall = None
    /\ returnedArray = None
    /\ returnedRows = None
    /\ reconIdle
    /\ extraIdle

\* App.tsx: handleFileUpload with the inline join
HandleFileUpload ==
    \E r \in {handleFileUploadWith("App.tsx", mainFiles, linkedFiles, gridColumns,
                                   mainKey, linkedKey)} :
    /\ ran = "none"
    /\ ran' = "handleFileUpload"
    /\ data' = r.data
    /\ availableColumns' =
            IF r.availableColumns = None THEN availableColumns ELSE r.availableColumns
    /\ threw' = r.threw
    /\ mainData' = r.mergedMainData
    /\ linkedData' = Flatten(linkedFiles)
    /\ merged' = r.join.merged
    /\ linkedMap' = r.join.linkedMap
    /\ mainSlot' = r.join.mainSlot
    /\ linkedSlot' = r.join.linkedSlot
    /\ UNCHANGED <<mainFiles, linkedFiles, gridColumns, mainKey, linkedKey, reconVars,
                   mainDataAtCall, linkedDataAtCall, returnedArray, returnedRows,
                   extraVars>>

\* part_001: handleFileUpload, the linked arrays concatenated and handed to
\* mergeCSVData
HandleFileUpload001 ==
    \E r \in {handleFileUploadWith("part_001", mainFiles, linkedFiles, gridColumns,
                                   mainKey, linkedKey)} :
    /\ ran = "none"
    /\ ran' = "handleFileUpload001"
    /\ data' = r.data
    /\ availableColumns' =
            IF r.availableColumns = None THEN availableColumns ELSE r.availableColumns
    /\ threw' = r.threw
    /\ mainData' = r.mergedMainData
    /\ linkedData' = Flatten(linkedFiles)
    /\ merged' = r.join.merged
    /\ linkedMap' = r.join.linkedMap
    /\ mainSlot' = r.join.mainSlot
    /\ linkedSlot' = r.join.linkedSlot
    /\ UNCHANGED <<mainFiles, linkedFiles, gridColumns, mainKey, linkedKey, reconVars,
                   mainDataAtCall, linkedDataAtCall, returnedArray, returnedRows,
                   extraVars>>

NextUpload ==
    \/ HandleFileUpload
    \/ HandleFileUpload001

SpecUpload == InitUpload /\ [][NextUpload]_vars

\* ------------------------------------------------------------------ combine pass

MaxComposeRows == 2

ComposeFirstValues == {Undef, <<>>, <<" ">>, <<"T">>}
ComposeLastValues == {<<>>, <<"wsp">>, <<"Y">>}
ComposeFullValues == {Undef, <<"old">>}

\* the records after the merge step: first, last and, in some, a value
\* already stored under the derived column's key
ComposeRows ==
    { MkRec(<< <<"first", f>>, <<"last", l>>, <<"full", o>> >>) :
        f \in ComposeFirstValues, l \in ComposeLastValues, o \in ComposeFullValues }

\* combine.delimiter: not configured, "", "-" and " "
ComposeDelimiters == {Undef, <<>>, <<"-">>, <<" ">>}

\* two combine columns: "label" lists the key of the combine column "full"
\* as a source, and "full" lists "last" and "first" or its own key
ComposeChains ==
    { << [key |-> "full",
          combine |-> [columns |-> cols, delimiter |-> <<"-">>]],
         [key |-> "label",
          combine |-> [columns |-> <<"full", "first">>, delimiter |-> <<"-">>]] >> :
        cols \in { <<"last", "first">>, <<"full", "last">> } }

\* a plain column and a combine column, and the chains in either order
ComposeConfigs ==
    { << [key |-> "first"],
         [key |-> "full",
          combine |-> [columns |-> cols, delimiter |-> d]] >> :
        cols \in { <<"last", "first">>, <<"last", "middle", "first">> },
        d \in ComposeDelimiters }
    \cup ComposeChains
    \cup { <<c[2], c[1]>> : c \in ComposeChains }

InitCompose ==
    /\ ran = "none"
    /\ finalData \in UNION { [1..n -> ComposeRows] : n \in 1..MaxComposeRows }
    /\ gridColumns \in ComposeConfigs
    /\ mainFiles = <<>>
    /\ linkedFiles = <<>>
    /\ data = <<>>
    /\ availableColumns = <<>>
    /\ threw = FALSE
    /\ reconIdle
    /\ joinIdle
    /\ parseIdle
    /\ normIdle
    /\ loadIdle
    /\ sessionIdle
    /\ gridIdle

\* finalData = finalData.map(row => { ... combinedRow ... })
CombineColumns ==
    /\ ran = "none"
    /\ ran' = "combine"
    /\ data' = [r \in 1..Len(finalData) |->
                    combineRow(finalData[r], finalData[r], gridColumns, 1)]
    /\ UNCHANGED <<finalData, gridColumns, mainFiles, linkedFiles,
                   availableColumns, threw, reconVars, joinVars, parseVars,
                   normVars, loadVars, gridVars,
                   sessionVars>>

NextCompose ==
    \/ CombineColumns

SpecCompose == InitCompose /\ [][NextCompose]_vars

\* ------------------------------------------------------------------ csv text

MaxCsvRows == 2

\* cell values: plain, empty, with a line break (LF and CR+LF), with a comma,
\* a quote, and with white space around a comma or a line break
CsvCellValues ==
    { <<>>, <<"a">>, <<"a", "\n", "b">>, <<"a", "\r", "\n", "b">>,
      <<"a", ",", "b">>, <<"\"">>, <<" ", ",">>, <<"a", "\n">> }

CsvHeaders == { << <<"h">> >>, << <<"h">>, <<"g">> >> }

CsvRows(header) ==
    { [i \in 1..Len(header) |-> <<header[i], c[i]>>] :
        c \in [1..Len(header) -> CsvCellValues] }

CsvTables ==
    UNION { [1..n -> CsvRows(h)] : n \in 0..MaxCsvRows, h \in CsvHeaders }

InitCsv ==
    /\ ran = "none"
    /\ table \in CsvTables
    /\ value = IF Len(table) > 0 THEN table[1][1][2] ELSE <<>>
    /\ csvString = generateCSV(table)
    /\ line = escapeCSVCell(value)
    /\ parsed = None
    /\ reconIdle
    /\ joinIdle
    /\ uploadIdle
    /\ composeIdle
    /\ normIdle
    /\ loadIdle
    /\ sessionIdle
    /\ gridIdle

\* csvUtils.ts: parseCSV(csvString)
CallParseCSV ==
    /\ ran = "none"
    /\ ran' = "parseCSV"
    /\ parsed' = parseCSV(csvString)
    /\ UNCHANGED <<table, value, csvString, line, reconVars, joinVars, uploadVars,
                   composeVars, normVars, loadVars, gridVars,
                   sessionVars>>

\* part_003: parseCSV(csvString)
CallParseCSV003 ==
    /\ ran = "none"
    /\ ran' = "parseCSV003"
    /\ parsed' = parseCSV003(csvString)
    /\ UNCHANGED <<table, value, csvString, line, reconVars, joinVars, uploadVars,
                   composeVars, normVars, loadVars, gridVars,
                   sessionVars>>

\* csvUtils.ts: parseCSVLine(line)
CallParseCSVLine ==
    /\ ran = "none"
    /\ ran' = "parseCSVLine"
    /\ parsed' = parseCSVLine(line)
    /\ UNCHANGED <<table, value, csvString, line, reconVars, joinVars, uploadVars,
                   composeVars, normVars, loadVars, gridVars,
                   sessionVars>>

NextCsv ==
    \/ CallParseCSV
    \/ CallParseCSV003
    \/ CallParseCSVLine

SpecCsv == InitCsv /\ [][NextCsv]_vars

\* ------------------------------------------------------------------ normalize

MaxKeyLen == 3

\* upper and lower case, half-width and full-width, and the two spaces
KeyChars == {"A", "a", "wA", "wa", " ", "wsp"}

KeyStrings == UNION { [1..n -> KeyChars] : n \in 0..MaxKeyLen }

\* the letters of a key, case and width set aside, white space left out
RECURSIVE LettersOf(_)
LettersOf(s) ==
    IF s = <<>> THEN <<>>
    ELSE (IF Head(s) \in {" ", "wsp"} THEN <<>> ELSE <<"letter a">>)
            \o LettersOf(Tail(s))

\* keyB is a spelling of keyA: the two differ only in white space, letter
\* case and width
InitNormalize ==
    /\ ran = "none"
    /\ keyA \in KeyStrings
    /\ keyB \in {s \in KeyStrings : LettersOf(s) = LettersOf(keyA)}
    /\ normalized = None
    /\ renormalized = None
    /\ reconIdle
    /\ joinIdle
    /\ uploadIdle
    /\ composeIdle
    /\ parseIdle
    /\ loadIdle
    /\ sessionIdle
    /\ gridIdle

CallNormalizeString ==
    /\ ran = "none"
    /\ ran' = "normalizeString"
    /\ normalized' = <<normalizeString(keyA), normalizeString(keyB)>>
    /\ UNCHANGED <<keyA, keyB, renormalized, reconVars, joinVars, uploadVars,
                   composeVars, parseVars, loadVars, gridVars,
                   sessionVars>>

\* normalizeString applied to its own results
CallNormalizeStringAgain ==
    /\ ran = "normalizeString"
    /\ ran' = "normalizeStringAgain"
    /\ renormalized' = <<normalizeString(normalized[1]), normalizeString(normalized[2])>>
    /\ UNCHANGED <<keyA, keyB, normalized, reconVars, joinVars, uploadVars,
                   composeVars, parseVars, loadVars, gridVars,
                   sessionVars>>

NextNormalize ==
    \/ CallNormalizeString
    \/ CallNormalizeStringAgain

SpecNormalize == InitNormalize /\ [][NextNormalize]_vars

\* ------------------------------------------------------------------ parallel loading

MaxLoadFiles == 2

LoadMainDatasets ==
    { <<>>,
      << << <<"id", <<"A">>>>, <<"name", <<"X">>>> >> >>,
      << << <<"id", <<"A">>>>, <<"dept", <<"S">>>> >> >> }

LoadLinkedDatasets ==
    { << << <<"id", <<"A">>>>, <<"dept", <<"S">>>> >> >>,
      << << <<"id", <<"A">>>>, <<"dept", <<"T">>>> >> >> }

\* the array Promise.all resolves with, filled as the reads complete in
\* any order: all at the position a later read would be appended at
promiseAllInCompletionOrder(results, pending, i, dataset) ==
    [results EXCEPT ![Len(results) - Cardinality(pending) + 1] = dataset]

\* the array Promise.all resolves with, filled as the reads complete: the
\* result of input i is element i
promiseAll(results, pending, i, dataset) ==
    [results EXCEPT ![i] = dataset]

InitLoad ==
    /\ ran = "none"
    /\ mainFiles \in UNION { [1..n -> LoadMainDatasets] : n \in 0..MaxLoadFiles }
    /\ linkedFiles \in UNION { [1..n -> LoadLinkedDatasets] : n \in 0..MaxLoadFiles }
    /\ gridColumns = <<>>
    /\ mainKey = "id"
    /\ linkedKey = "id"
    /\ data = <<>>
    /\ availableColumns = <<>>
    /\ threw = FALSE
    /\ mainData = None
    /\ linkedData = None
    /\ merged = None
    /\ linkedMap = None
    /\ mainSlot = None
    /\ linkedSlot = None
    /\ mainDataAtCall = None
    /\ linkedDataAtCall = None
    /\ returnedArray = None
    /\ returnedRows = None
    /\ loadIdle
    /\ sessionIdle
    /\ gridIdle
    /\ reconIdle
    /\ composeIdle
    /\ parseIdle
    /\ normIdle

loadFrame == <<mainFiles, linkedFiles, gridColumns, joinVars, reconVars,
               composeVars, parseVars, normVars, gridVars, sessionVars>>

\* the handler runs from the arrays it awaited to its end
FinishUpload(mainArrays, linkedArrays) ==
    \E r \in {handleFileUploadWith(loadVersion, mainArrays, linkedArrays,
                                    gridColumns, mainKey, linkedKey)} :
    /\ data' = r.data
    /\ availableColumns' =
            IF r.availableColumns = None THEN availableColumns ELSE r.availableColumns
    /\ threw' = r.threw
    /\ ran' = IF loadVersion = "App.tsx" THEN "handleFileUpload"
              ELSE "handleFileUpload001"
    /\ pc' = "done"

\* App.tsx: handleFileUpload is called: without main files it sets the data
\* and returns, otherwise it starts the read of every main file
StartHandleFileUpload ==
    /\ pc = "idle"
    /\ loadVersion' = "App.tsx"
    /\ IF Len(mainFiles) = 0
       THEN /\ data' = <<>>
            /\ pc' = "done"
            /\ ran' = "handleFileUpload"
            /\ UNCHANGED <<mainPending, mainDataArrays>>
       ELSE /\ pc' = "mainReads"
            /\ mainPending' = 1..Len(mainFiles)
            /\ mainDataArrays' = [i \in 1..Len(mainFiles) |-> None]
            /\ UNCHANGED <<data, ran>>
    /\ UNCHANGED <<availableColumns, threw, linkedPending, linkedDataArrays,
                   completed, loadFrame>>

\* part_001: handleFileUpload is called
StartHandleFileUpload001 ==
    /\ pc = "idle"
    /\ loadVersion' = "part_001"
    /\ IF Len(mainFiles) = 0
       THEN /\ data' = <<>>
            /\ pc' = "done"
            /\ ran' = "handleFileUpload001"
            /\ UNCHANGED <<mainPending, mainDataArrays>>
       ELSE /\ pc' = "mainReads"
            /\ mainPending' = 1..Len(mainFiles)
            /\ mainDataArrays' = [i \in 1..Len(mainFiles) |-> None]
            /\ UNCHANGED <<data, ran>>
    /\ UNCHANGED <<availableColumns, threw, linkedPending, linkedDataArrays,
                   completed, loadFrame>>

\* file.text() of one main file resolves and its callback parses the text
MainReadCompletes ==
    /\ pc = "mainReads"
    /\ \E i \in mainPending :
          /\ mainDataArrays' = promiseAll(mainDataArrays, mainPending, i, mainFiles[i])
          /\ mainPending' = mainPending \ {i}
          /\ completed' = Append(completed, <<"main", i>>)
    /\ UNCHANGED <<ran, pc, loadVersion, data, availableColumns, threw,
                   linkedPending, linkedDataArrays, loadFrame>>

\* await Promise.all of the main files returns: row union, then either the
\* reads of the linked files start or the handler runs to its end
MainReadsDone ==
    /\ pc = "mainReads"
    /\ mainPending = {}
    /\ IF Len(mainDataArrays[1]) = 0 \/ Len(linkedFiles) = 0
       THEN /\ FinishUpload(mainDataArrays, <<>>)
            /\ UNCHANGED <<linkedPending, linkedDataArrays>>
       ELSE /\ pc' = "linkedReads"
            /\ linkedPending' = 1..Len(linkedFiles)
            /\ linkedDataArrays' = [j \in 1..Len(linkedFiles) |-> None]
            /\ UNCHANGED <<ran, data, availableColumns, threw>>
    /\ UNCHANGED <<loadVersion, mainPending, mainDataArrays, completed, loadFrame>>

LinkedReadCompletes ==
    /\ pc = "linkedReads"
    /\ \E j \in linkedPending :
          /\ linkedDataArrays' =
                promiseAll(linkedDataArrays, linkedPending, j, linkedFiles[j])
          /\ linkedPending' = linkedPending \ {j}
          /\ completed' = Append(completed, <<"linked", j>>)
    /\ UNCHANGED <<ran, pc, loadVersion, data, availableColumns, threw,
                   mainPending, mainDataArrays, loadFrame>>

\* await Promise.all of the linked files returns: key union, join, combine
LinkedReadsDone ==
    /\ pc = "linkedReads"
    /\ linkedPending = {}
    /\ FinishUpload(mainDataArrays, linkedDataArrays)
    /\ UNCHANGED <<loadVersion, mainPending, linkedPending, mainDataArrays,
                   linkedDataArrays, completed, loadFrame>>

NextLoad ==
    \/ StartHandleFileUpload
    \/ StartHandleFileUpload001
    \/ MainReadCompletes
    \/ MainReadsDone
    \/ LinkedReadCompletes
    \/ LinkedReadsDone

SpecLoad == InitLoad /\ [][NextLoad]_vars

\* ------------------------------------------------------------------ the grid

MaxGridRows == 2

\* the keys of the headers passed to the grid
GridHeaderKeys == {"name", "dept"}

\* the rows passed to the grid: the configured columns, and with some files
\* a column whose header cell is empty (a header line such as "name,dept,")
GridRows ==
    { MkRec(<< <<"name", n>>, <<"dept", d>>, <<"", e>> >>) :
        n \in {<<"a">>, <<"A", "b">>}, d \in {<<>>, <<"B">>},
        e \in {Undef, <<"a">>} }

GridDatasets ==
    UNION { [1..n -> GridRows] : n \in 0..MaxGridRows }

\* what is typed into a filter input, into an exclude input (that of one
\* column) and into the search input
GridFilterTexts == {<<>>, <<"a">>, <<"B">>}
GridExcludeKeys == {"name"}
GridExcludeTexts == {<<>>, <<"B">>}
GridSearchTexts == {<<>>, <<"b">>}

\* the grid is mounted with its data and has rendered once
InitGrid ==
    /\ ran = "DataGrid"
    /\ gridVersion \in {"first", "second"}
    /\ data \in GridDatasets
    /\ dataAtMount = data
    /\ sortField = NullField
    /\ sortDirection = "asc"
    /\ filters = <<>>
    /\ excludeFilters = <<>>
    /\ globalSearch = <<>>
    /\ displayed = render(gridVersion, data, NullField, "asc", <<>>, <<>>, <<>>)
    /\ mainFiles = <<>>
    /\ linkedFiles = <<>>
    /\ gridColumns = <<>>
    /\ availableColumns = <<>>
    /\ threw = FALSE
    /\ reconIdle
    /\ joinIdle
    /\ composeIdle
    /\ parseIdle
    /\ normIdle
    /\ loadIdle
    /\ sessionIdle

gridFrame == <<gridVersion, dataAtMount, uploadVars, reconVars, joinVars,
               composeVars, parseVars, normVars, loadVars, sessionVars>>

\* handleSort(field): a click on a column header
HandleSort ==
    \E field \in GridHeaderKeys :
    /\ sortField' = field
    /\ sortDirection' =
            IF sortField = field
            THEN (IF sortDirection = "asc" THEN "desc" ELSE "asc")
            ELSE "asc"
    /\ displayed' = render(gridVersion, data, sortField', sortDirection',
                           filters, excludeFilters, globalSearch)
    /\ ran' = "DataGrid"
    /\ UNCHANGED <<filters, excludeFilters, globalSearch, gridFrame>>

\* first version: handleFilterChange(key, value)
HandleFilterChange ==
    /\ gridVersion = "first"
    /\ \E key \in GridHeaderKeys, text \in GridFilterTexts :
        /\ filters' = Put(filters, key, text)
        /\ displayed' = render(gridVersion, data, sortField, sortDirection,
                               filters', excludeFilters, globalSearch)
    /\ ran' = "DataGrid"
    /\ UNCHANGED <<sortField, sortDirection, excludeFilters, globalSearch, gridFrame>>

\* second version: handleFilterChange(key, value, isExclude)
HandleFilterChange2 ==
    /\ gridVersion = "second"
    /\ \E isExclude \in BOOLEAN :
       \E key \in (IF isExclude THEN GridExcludeKeys ELSE GridHeaderKeys),
          text \in (IF isExclude THEN GridExcludeTexts ELSE GridFilterTexts) :
        /\ filters' = IF isExclude THEN filters ELSE Put(filters, key, text)
        /\ excludeFilters' =
                IF isExclude THEN Put(excludeFilters, key, text) ELSE excludeFilters
        /\ displayed' = render(gridVersion, data, sortField, sortDirection,
                               filters', excludeFilters', globalSearch)
    /\ ran' = "DataGrid"
    /\ UNCHANGED <<sortField, sortDirection, globalSearch, gridFrame>>

\* second version: setGlobalSearch(e.target.value) of the search input
SetGlobalSearch ==
    /\ gridVersion = "second"
    /\ \E text \in GridSearchTexts :
        /\ globalSearch' = text
        /\ displayed' = render(gridVersion, data, sortField, sortDirection,
                               filters, excludeFilters, text)
    /\ ran' = "DataGrid"
    /\ UNCHANGED <<sortField, sortDirection, filters, excludeFilters, gridFrame>>

NextGrid ==
    \/ HandleSort
    \/ HandleFilterChange
    \/ HandleFilterChange2
    \/ SetGlobalSearch

SpecGrid == InitGrid /\ [][NextGrid]_vars

\* ------------------------------------------------------------------ the fold of several linked records

MaxFoldRows == 3

\* the value of the latest-wins field of the k-th linked record
FoldValue(k) == <<"A", "B", "X", "Y">>[k]

FoldTimestamps == {<<"d1">>, <<"d2">>, <<"d3">>}

\* the k-th linked record of a file whose rows all have the key "A": a
\* latest-wins value of its own and a timestamp, the two columns in either
\* order
FoldRow(sch, k, ts, uaFirst) ==
    IF uaFirst
    THEN << <<"id", <<"A">> >>, <<sch.ua, ts>>, <<sch.lw, <<FoldValue(k)>> >> >>
    ELSE << <<"id", <<"A">> >>, <<sch.lw, <<FoldValue(k)>> >>, <<sch.ua, ts>> >>

FoldDatasets ==
    UNION { { [k \in 1..n |-> FoldRow(sch, k, ts[k], uaFirst)] :
                ts \in [1..n -> FoldTimestamps] } :
            n \in 2..MaxFoldRows, sch \in Schemas, uaFirst \in BOOLEAN }

InitFold ==
    /\ ran = "none"
    /\ linkedData \in FoldDatasets
    /\ linkedKey = "id"
    /\ linkedDataAtCall = linkedData
    /\ mainData = <<>>
    /\ mainKey = "id"
    /\ merged = None
    /\ linkedMap = None
    /\ mainSlot = None
    /\ linkedSlot = None
    /\ mainDataAtCall = <<>>
    /\ returnedArray = None
    /\ returnedRows = None
    /\ reconIdle
    /\ uploadIdle
    /\ extraIdle

foldFrame == <<mainData, linkedData, mainKey, linkedKey, merged, mainSlot,
               mainDataAtCall, linkedDataAtCall, returnedArray, returnedRows,
               reconVars, uploadVars, extraVars>>

\* csvUtils.ts: the forEach that builds linkedMap
CallBuildLinkedMap ==
    /\ ran = "none"
    /\ \E built \in {buildLinkedMap(linkedData, linkedKey, Len(linkedData))} :
        /\ linkedMap' = built.map
        /\ linkedSlot' = built.slot
    /\ ran' = "buildLinkedMap"
    /\ UNCHANGED foldFrame

\* part_002: the forEach that builds linkedMap
CallBuildLinkedMap002 ==
    /\ ran = "none"
    /\ \E built \in {buildLinkedMap002(linkedData, linkedKey, Len(linkedData))} :
        /\ linkedMap' = built.map
        /\ linkedSlot' = built.slot
    /\ ran' = "buildLinkedMap002"
    /\ UNCHANGED foldFrame

NextFold ==
    \/ CallBuildLinkedMap
    \/ CallBuildLinkedMap002

SpecFold == InitFold /\ [][NextFold]_vars

\* ------------------------------------------------------------------ reconcile: claims

\* absent, empty or white space only
Blank(v) == v = Undef \/ trim(v) = <<>>

\* a genuine conflict on f at the time of the call: both sides hold a
\* non-blank value and the two differ
Conflict(f) ==
    /\ f # excludeKey
    /\ ~Blank(Get(targetAtCall, f))
    /\ ~Blank(Get(source, f))
    /\ Get(targetAtCall, f) # Get(source, f)

\* the latest-wins fields and the timestamp field of the version that ran
LatestWinsOf(version) ==
    IF version \in {"foldRow002", "overlayRow002"}
    THEN LatestWinsFields002 ELSE LatestWinsFields

UpdatedAtOf(version) ==
    IF version \in {"foldRow002", "overlayRow002"} THEN UpdatedAt002 ELSE UpdatedAt

Concatenated(f) == Get(target, f) = CommaJoin(Get(targetAtCall, f), Get(source, f))

\* C2: a conflict on a field that is not resolved by timestamp (no
\* latest-wins field, or a latest-wins field of records without any
\* timestamp) leaves exactly old target value, ", ", source value.
\* Stated for mergeRows of csvUtils.ts and of part_003.
C2_ConflictDefault ==
    ran \in {"mergeRows", "mergeRowsEsc"} =>
        \A f \in Fields(source) :
            ( /\ Conflict(f)
              /\ f \in LatestWinsFields =>
                    /\ Falsy(Get(targetAtCall, UpdatedAt))
                    /\ Falsy(Get(source, UpdatedAt)) )
            => Concatenated(f)

\* C3: on a conflict on a latest-wins field with a parseable timestamp on
\* both sides, the value of the strictly later side is the target's value.
\* Stated for mergeRows of csvUtils.ts and the linked fold of part_002.
C3_LatestWins ==
    ran \in {"mergeRows", "foldRow002"} =>
        \A f \in Fields(source) \cap LatestWinsOf(ran) :
            LET tt == DateTime(Get(targetAtCall, UpdatedAtOf(ran)))
                ts == DateTime(Get(source, UpdatedAtOf(ran)))
            IN  (Conflict(f) /\ tt # NaN /\ ts # NaN) =>
                    /\ ts > tt => Get(target, f) = Get(source, f)
                    /\ tt > ts => Get(target, f) = Get(targetAtCall, f)

\* C4: on a conflict on a latest-wins field where a timestamp is missing
\* (absent or empty) or does not parse, the values are concatenated.
\* Stated for mergeRows of csvUtils.ts and the fold and overlay of part_002.
C4_LatestWinsFallback ==
    ran \in {"mergeRows", "foldRow002", "overlayRow002"} =>
        \A f \in Fields(source) \cap LatestWinsOf(ran) :
            LET tt == DateTime(Get(targetAtCall, UpdatedAtOf(ran)))
                ts == DateTime(Get(source, UpdatedAtOf(ran)))
            IN  (Conflict(f) /\ (tt = NaN \/ ts = NaN)) => Concatenated(f)

\* C5: on a conflict on a latest-wins field where both timestamps are
\* present and equal, the values are concatenated.
\* Stated for mergeRows of csvUtils.ts and the linked fold of part_002.
C5_TieConcatenates ==
    ran \in {"mergeRows", "foldRow002"} =>
        \A f \in Fields(source) \cap LatestWinsOf(ran) :
            LET tt == Get(targetAtCall, UpdatedAtOf(ran))
                ts == Get(source, UpdatedAtOf(ran))
            IN  (Conflict(f) /\ ~Falsy(tt) /\ tt = ts /\ DateTime(tt) # NaN)
                    => Concatenated(f)

\* C14: reconciling a record with itself leaves every field with the value
\* it had and adds no field.  Stated for mergeRows of csvUtils.ts and of
\* part_003.
C14_ReconcileIdempotence ==
    (ran \in {"mergeRows", "mergeRowsEsc"} /\ source = targetAtCall) =>
        target = targetAtCall

\* a record with a latest-wins value, a timestamp and a further field has
\* been reconciled with itself
C14_Witness ==
    /\ ran \in {"mergeRows", "mergeRowsEsc"}
    /\ source = targetAtCall
    /\ \E f \in LatestWinsFields : ~Blank(Get(source, f))
    /\ ~Blank(Get(source, UpdatedAt))
    /\ ~Blank(Get(source, "name"))
    /\ excludeKey = NoKey

\* C21: the call changes target[f] only for the fields f of source that
\* differ from the excluded field and whose source value is not blank; the
\* excluded field, the fields whose source value is blank and the fields
\* absent from source keep their values, no other field appears, and
\* source is as it was.  Stated for mergeRows of csvUtils.ts and the
\* overlay of part_002.
C21_ReconcileFrame ==
    ran \in {"mergeRows", "overlayRow002"} =>
        /\ \A f \in Fields(target) \cup Fields(targetAtCall) :
              Get(target, f) # Get(targetAtCall, f) =>
                  /\ Has(sourceAtCall, f)
                  /\ f # excludeKey
                  /\ ~Blank(Get(sourceAtCall, f))
        /\ source = sourceAtCall

\* the source holds a value for the excluded field that differs from the
\* target's, and no value or an empty one for another field the target
\* holds a value for; the call has changed a third field
C21_Witness ==
    /\ ran \in {"mergeRows", "overlayRow002"}
    /\ excludeKey = "name"
    /\ ~Blank(Get(source, "name"))
    /\ ~Blank(Get(targetAtCall, "name"))
    /\ Get(source, "name") # Get(targetAtCall, "name")
    /\ \E f \in Fields(targetAtCall) :
          /\ ~Blank(Get(targetAtCall, f))
          /\ (~Has(source, f) \/ Get(source, f) = <<>>)
    /\ target # targetAtCall

\* C23: a field both sides hold a non-blank value for is left alone only
\* when the two values are the identical string; values that differ in any
\* character, letter case included, are resolved: on a field that is not
\* resolved by timestamp the target holds old value, ", ", source value, on
\* a latest-wins field one of the two values or their concatenation.
\* Stated for mergeRows of csvUtils.ts and the fold and overlay of part_002.
C23_ExactEqualityTest ==
    ran \in {"mergeRows", "foldRow002", "overlayRow002"} =>
        \A f \in Fields(source) :
            (f # excludeKey /\ ~Blank(Get(targetAtCall, f)) /\ ~Blank(Get(source, f))) =>
                /\ Get(targetAtCall, f) = Get(source, f) =>
                      Get(target, f) = Get(targetAtCall, f)
                /\ (Conflict(f) /\ f \notin LatestWinsOf(ran)) => Concatenated(f)
                /\ (Conflict(f) /\ f \in LatestWinsOf(ran)) =>
                      Get(target, f) \in
                          {Get(targetAtCall, f), Get(source, f),
                           CommaJoin(Get(targetAtCall, f), Get(source, f))}

\* ------------------------------------------------------------------ join: claims

MainIdx == 1..Len(mainData)
LinkedIdx == 1..Len(linkedData)

\* the join keys of main row i and linked row j as the files give them
MainKeyOf(i) == Get(mainData[i], mainKey)
LinkedKeyOf(j) == Get(linkedData[j], linkedKey)

\* the same key: both non-empty and equal in normalized form
SameKey(i, j) ==
    /\ ~Falsy(MainKeyOf(i))
    /\ ~Falsy(LinkedKeyOf(j))
    /\ normalizeString(MainKeyOf(i)) = normalizeString(LinkedKeyOf(j))

\* main row i and linked row j were treated as one entity: the main row
\* found its partner under the map key the linked row was stored under
Joined(i, j) == mainSlot[i] # None /\ mainSlot[i] = linkedSlot[j]

\* C1: the cross-join keeps the main rows in number and order and every
\* main field; a main row with a linked row of the same key gains that
\* row's non-blank fields it lacks (the linked key field aside); a main
\* row without one comes out as it went in.
\* Stated for mergeCSVData of csvUtils.ts and of part_002.
C1_CrossJoin ==
    ran \in {"mergeCSVData", "mergeCSVData002"} =>
        /\ Len(merged) = Len(mainData)
        /\ \A i \in MainIdx :
            /\ Fields(mainData[i]) \subseteq Fields(merged[i])
            /\ \A j \in LinkedIdx :
                SameKey(i, j) =>
                    \A f \in Fields(linkedData[j]) \ (Fields(mainData[i]) \cup {linkedKey}) :
                        ~Blank(Get(linkedData[j], f)) => ~Blank(Get(merged[i], f))
            /\ (\A j \in LinkedIdx : ~SameKey(i, j)) => merged[i] = mainData[i]

\* C6: rows with non-empty keys are joined exactly when their keys are
\* equal in normalized form.
\* Stated for mergeCSVData of part_002 and of csvUtils.ts.
C6_NormalizedKeyMatch ==
    ran \in {"mergeCSVData", "mergeCSVData002"} =>
        \A i \in MainIdx, j \in LinkedIdx :
            (~Falsy(MainKeyOf(i)) /\ ~Falsy(LinkedKeyOf(j))) =>
                (Joined(i, j) <=> SameKey(i, j))

\* C7: a main row with an empty or absent key finds no partner and comes
\* out as it went in; a linked row with an empty or absent key is the
\* partner of no main row.
\* Stated for mergeCSVData of csvUtils.ts and of part_002 and for the
\* inline join of App.tsx.
C7_EmptyKeysMiss ==
    ran \in {"mergeCSVData", "mergeCSVData002", "crossJoinInline"} =>
        /\ \A i \in MainIdx :
            Falsy(MainKeyOf(i)) => mainSlot[i] = None /\ merged[i] = mainData[i]
        /\ \A j \in LinkedIdx :
            Falsy(LinkedKeyOf(j)) => \A i \in MainIdx : ~Joined(i, j)

\* C22: in every output record of the cross-join the value at mainKey is
\* the main record's own key string, and the linked record's linkedKey
\* field is not copied: with linkedKey different from mainKey the output
\* record has a linkedKey field only when the main record had one, with
\* the main record's value.
\* Stated for mergeCSVData of csvUtils.ts and of part_002 and for the
\* inline join of App.tsx.
C22_JoinKeyPreserved ==
    ran \in {"mergeCSVData", "mergeCSVData002", "crossJoinInline"} =>
        /\ Len(merged) = Len(mainData)
        /\ \A i \in MainIdx :
              /\ Get(merged[i], mainKey) = Get(mainData[i], mainKey)
              /\ linkedKey # mainKey =>
                    /\ Has(merged[i], linkedKey) <=> Has(mainData[i], linkedKey)
                    /\ Get(merged[i], linkedKey) = Get(mainData[i], linkedKey)

\* the configured key names no field of the first record
JoinKeyMissing ==
    \/ Len(mainData) > 0 /\ ~Has(mainData[1], mainKey)
    \/ Len(linkedData) > 0 /\ ~Has(linkedData[1], linkedKey)

\* C8: when a key names no field of the first main or first linked record
\* the main rows are returned as they are and no main row has a partner.
\* Stated for mergeCSVData of part_002 and of csvUtils.ts.
C8_JoinKeyMissingPassThrough ==
    (ran \in {"mergeCSVData", "mergeCSVData002"} /\ JoinKeyMissing) =>
        /\ merged = mainData
        /\ \A i \in MainIdx : mainSlot[i] = None

\* C16: mergeCSVData leaves the input main and linked records as they
\* were, returns a new array of new objects on the matched, the unmatched
\* and the key-missing path, and a later write of the caller to a returned
\* record leaves the inputs as they were.  Stated for mergeCSVData of
\* csvUtils.ts and of part_002.
C16_CopyOnReturn ==
    /\ ran \in {"mergeCSVData", "mergeCSVData002"} =>
          /\ returnedArray = "new array"
          /\ \A i \in 1..Len(returnedRows) : returnedRows[i] = "new object"
    /\ ran \in {"mergeCSVData", "mergeCSVData002",
                 "mergeCSVData, write", "mergeCSVData002, write"} =>
          /\ mainData = mainDataAtCall
          /\ linkedData = linkedDataAtCall

\* C24: when the first main record has a field named mainKey and the first
\* linked record a field named linkedKey, the merge is performed for all
\* records, whatever the first record's key value: every main row and
\* linked row with the same key are joined, and a first record with an
\* empty key is itself a miss.  Stated for mergeCSVData of part_002.
C24_PassThroughOnlyOnMissingField ==
    ( /\ ran = "mergeCSVData002"
      /\ Len(mainData) > 0 /\ Has(mainData[1], mainKey)
      /\ Len(linkedData) > 0 /\ Has(linkedData[1], linkedKey) ) =>
        /\ \A i \in MainIdx, j \in LinkedIdx : SameKey(i, j) => Joined(i, j)
        /\ Falsy(MainKeyOf(1)) => mainSlot[1] = None

\* the consolidated linked record main row i was overlaid with
PartnerOf(i) == Get(linkedMap, mainSlot[i])

\* the timestamp field and the latest-wins fields of the join that ran
JoinUpdatedAt == IF ran = "mergeCSVData002" THEN UpdatedAt002 ELSE UpdatedAt
JoinLatestWins ==
    IF ran = "mergeCSVData002" THEN LatestWinsFields002 ELSE LatestWinsFields

\* C26: in the output record of a matched main row every field the main
\* row held a non-empty value for holds that value, or that value followed
\* by ", " and the linked value; only a latest-wins field whose linked
\* timestamp is strictly later may hold the linked value instead.
\* Stated for the inline join of App.tsx and for mergeCSVData of
\* csvUtils.ts and of part_002.
C26_LosslessOverlay ==
    ran \in {"mergeCSVData", "mergeCSVData002", "crossJoinInline"} =>
        \A i \in MainIdx :
            mainSlot[i] # None =>
                \A f \in Fields(mainData[i]) :
                    ~Falsy(Get(mainData[i], f)) =>
                        \/ Get(merged[i], f) = Get(mainData[i], f)
                        \/ /\ Has(PartnerOf(i), f)
                           /\ Get(merged[i], f) =
                                CommaJoin(Get(mainData[i], f), Get(PartnerOf(i), f))
                        \/ /\ f \in JoinLatestWins
                           /\ Has(PartnerOf(i), f)
                           /\ DateGt(DateTime(Get(PartnerOf(i), JoinUpdatedAt)),
                                     DateTime(Get(mainData[i], JoinUpdatedAt)))
                           /\ Get(merged[i], f) = Get(PartnerOf(i), f)

\* the aggregation map as the linked rows alone build it
BuiltLinkedMap ==
    IF ran = "mergeCSVData"
    THEN buildLinkedMap(linkedData, linkedKey, Len(linkedData)).map
    ELSE IF ran = "mergeCSVData002"
    THEN buildLinkedMap002(linkedData, linkedKey, Len(linkedData)).map
    ELSE linkedFold(linkedData, linkedKey, Len(linkedData)).map

\* the output for main row i when it is the only main row
AloneOutput(i) ==
    overlayMain(ran, BuiltLinkedMap, <<mainData[i]>>, mainKey, linkedKey, 1).rows[1]

\* C27: the overlays leave the aggregation map as the linked rows built it,
\* and the output record of every main row is the one it gets when it is
\* the only main row: it does not depend on the main rows before it, those
\* with the same key included.
\* Stated for mergeCSVData of csvUtils.ts and of part_002 and for the
\* inline join of App.tsx.
C27_OverlayLeavesLinkedRecord ==
    ( /\ ran \in {"mergeCSVData", "mergeCSVData002", "crossJoinInline"}
      /\ ran = "mergeCSVData002" =>
            ~passThrough002(mainData, linkedData, mainKey, linkedKey) ) =>
        /\ linkedMap = BuiltLinkedMap
        /\ Len(merged) = Len(mainData)
        /\ \A i \in MainIdx : merged[i] = AloneOutput(i)

\* two main rows found the same linked record, and the overlay changed the
\* first of them
C27_Witness ==
    /\ ran \in {"mergeCSVData", "mergeCSVData002", "crossJoinInline"}
    /\ Len(mainData) = 2
    /\ mainSlot[1] # None
    /\ mainSlot[1] = mainSlot[2]
    /\ merged[1] # mainData[1]
    /\ mainData[1] # mainData[2]

\* ------------------------------------------------------------------ upload: claims

Uploaded == ran \in {"handleFileUpload", "handleFileUpload001"}

\* the rows of the main files after the first, in the order supplied
LaterMainRows == Flatten(Tail(mainFiles))

\* C9: with several main files the row union (mergedMainData, kept in
\* mainData) is the first file's rows followed by the later files' rows in
\* order, every record on the first file's field set: a later row's value
\* where it has the field, the empty string where it has not.
\* Stated for handleFileUpload of App.tsx and of part_001.
C9_RowUnionSchema ==
    (Uploaded /\ Len(mainFiles) >= 2 /\ Len(Flatten(mainFiles)) > 0) =>
        /\ ~threw
        /\ Len(mainData) = Len(mainFiles[1]) + Len(LaterMainRows)
        /\ \A r \in 1..Len(mainFiles[1]) : mainData[r] = mainFiles[1][r]
        /\ Len(mainFiles[1]) > 0 =>
            LET firstFields == Fields(mainFiles[1][1]) IN
            /\ \A r \in 1..Len(mainData) : Fields(mainData[r]) = firstFields
            /\ \A r \in 1..Len(LaterMainRows) :
                \A f \in firstFields :
                    Get(mainData[Len(mainFiles[1]) + r], f) =
                        IF Has(LaterMainRows[r], f)
                        THEN Get(LaterMainRows[r], f) ELSE <<>>

\* v occurs in s
Occurs(v, s) ==
    \E k \in 1..(Len(s) - Len(v) + 1) : SubSeq(s, k, k + Len(v) - 1) = v

\* C10: with several linked files every linked row with a key is folded
\* into the one map record of its key, and no non-blank value of a row is
\* missing from that record: it is there as the field's value or as a part
\* of the ", "-joined value.
\* Stated for handleFileUpload of App.tsx and of part_001 (mergeCSVData of
\* csvUtils.ts).
C10_LinkedKeyUnion ==
    (Uploaded /\ Len(linkedFiles) >= 2 /\ linkedMap # None) =>
        \A j \in 1..Len(linkedData) :
            ~Falsy(Get(linkedData[j], linkedKey)) =>
                /\ linkedSlot[j] # None
                /\ Has(linkedMap, linkedSlot[j])
                /\ \A k \in 1..Len(linkedData) :
                    Get(linkedData[k], linkedKey) = Get(linkedData[j], linkedKey)
                        => linkedSlot[k] = linkedSlot[j]
                /\ \A f \in Fields(linkedData[j]) :
                    ~Blank(Get(linkedData[j], f)) =>
                        Occurs(Get(linkedData[j], f),
                               Get(Get(linkedMap, linkedSlot[j]), f))

\* C17: with no main file, or with main files that parse to no rows, the
\* displayed data is empty and the catch block does not run; with an empty
\* first main file the rows of the later main files are still processed.
\* Stated for handleFileUpload of App.tsx.
C17_EmptyMainIsNoError ==
    ran = "handleFileUpload" =>
        /\ Len(Flatten(mainFiles)) = 0 => (data = <<>> /\ ~threw)
        /\ (Len(mainFiles) > 0 /\ Len(mainFiles[1]) = 0) =>
              /\ ~threw
              /\ Len(data) = Len(Flatten(mainFiles))

\* the field names that occur in the final records
ObservedFields == UNION { Fields(data[r]) : r \in 1..Len(data) }

\* C18: after an upload that yields at least one final record the available
\* columns are exactly the field names that occur in some final record.
\* Stated for handleFileUpload of App.tsx and of part_001.
C18_AvailableFieldNames ==
    (Uploaded /\ ~threw /\ Len(data) > 0) =>
        { availableColumns[k] : k \in 1..Len(availableColumns) } = ObservedFields

\* ------------------------------------------------------------------ combine pass: claims

\* the source values a combine clause keeps: those present and not empty
\* after trim, in listed order
RECURSIVE KeptValues(_, _, _)
KeptValues(row, columns, k) ==
    IF k > Len(columns) THEN <<>>
    ELSE LET v == Get(row, columns[k])
         IN  (IF v = Undef \/ trim(v) = <<>> THEN <<>> ELSE <<v>>)
                \o KeptValues(row, columns, k + 1)

\* the configured delimiter, a single space where none is configured
ConfiguredDelimiter(col) ==
    IF col.combine.delimiter = Undef THEN <<" ">> ELSE col.combine.delimiter

\* the kept values with the delimiter between neighbours
RECURSIVE Delimited(_, _)
Delimited(values, delimiter) ==
    IF values = <<>> THEN <<>>
    ELSE IF Len(values) = 1 THEN values[1]
    ELSE values[1] \o delimiter \o Delimited(Tail(values), delimiter)

CombineSpecs == { c \in 1..Len(gridColumns) : "combine" \in DOMAIN gridColumns[c] }

\* C11: after the combine pass every record holds, under the key of every
\* column with a combine clause, the listed source values of the merged
\* record that are present and not empty after trim, in listed order, joined
\* by the configured delimiter (a single space only when none is
\* configured), whatever the record held under that key before.
C11_DerivedColumnComposition ==
    ran = "combine" =>
        /\ Len(data) = Len(finalData)
        /\ \A r \in 1..Len(data) : \A c \in CombineSpecs :
              Get(data[r], gridColumns[c].key) =
                  Delimited(KeptValues(finalData[r], gridColumns[c].combine.columns, 1),
                            ConfiguredDelimiter(gridColumns[c]))

\* the orderings of the ColumnSpec list
ColumnOrders ==
    { p \in [1..Len(gridColumns) -> 1..Len(gridColumns)] :
        \A a, b \in 1..Len(gridColumns) : a # b => p[a] # p[b] }

\* the same fields with the same values
SameRecord(a, b) ==
    /\ Fields(a) = Fields(b)
    /\ \A f \in Fields(a) : Get(a, f) = Get(b, f)

HasLineBreak(v) == \E i \in 1..Len(v) : v[i] = "\n"

\* the text has a line break inside a quoted field
QuotedLineBreak ==
    \E r \in 1..Len(table) : \E c \in 1..Len(table[r]) : HasLineBreak(table[r][c][2])

\* no logical row of the text is a blank line
NoBlankRow ==
    \A r \in 1..Len(table) : \E c \in 1..Len(table[r]) : trim(table[r][c][2]) # <<>>

\* C12: a CSV text whose quoted fields contain line breaks (LF or CR+LF)
\* parses to as many records as it has logical rows, each with as many
\* fields as the header, the line break being part of the field's value.
C12_QuotedNewlines ==
    (ran = "parseCSV" /\ QuotedLineBreak /\ NoBlankRow) =>
        /\ Len(parsed) = Len(table)
        /\ \A r \in 1..Len(parsed) :
              /\ Len(parsed[r]) = Len(table[r])
              /\ \A c \in 1..Len(table[r]) :
                    Get(parsed[r], table[r][c][1]) = table[r][c][2]

\* s contains a comma, a double quote or a line break
NeedsQuoting(s) == \E i \in 1..Len(s) : s[i] \in {",", "\"", "\n", "\r"}

\* C13: a string with commas, double quotes or line breaks, serialized as
\* one CSV cell and tokenized, comes back as exactly one field whose value
\* is exactly that string: by parseCSVLine on the cell, and by parseCSV of
\* part_003 on the one-column text holding the cell under a header.
C13_QuotingRoundTrip ==
    /\ (ran = "parseCSVLine" /\ NeedsQuoting(value)) => parsed = <<value>>
    /\ (ran = "parseCSV003" /\ NeedsQuoting(value)
            /\ Len(table) = 1 /\ Len(table[1]) = 1) =>
          /\ Len(parsed) = 1
          /\ Len(parsed[1]) = 1
          /\ parsed[1][1][2] = value

\* ------------------------------------------------------------------ normalize: claims

InSuppliedOrder ==
    handleFileUploadWith(loadVersion, mainFiles, linkedFiles, gridColumns,
                         mainKey, linkedKey)

\* C19: whatever the order in which the reads of the files complete, row
\* union and linked key union take the parsed datasets in the order the
\* files were supplied, and the final records are those of that order.
C19_OrderUnderParallelLoading ==
    /\ (pc \in {"mainReads", "linkedReads", "done"} /\ mainPending = {}) =>
          mainDataArrays = mainFiles
    /\ (pc \in {"linkedReads", "done"} /\ linkedPending = {}
            /\ linkedDataArrays # <<>>) =>
          linkedDataArrays = linkedFiles
    /\ (pc = "done" /\ Len(mainFiles) > 0) =>
          /\ data = InSuppliedOrder.data
          /\ threw = InSuppliedOrder.threw

\* two different main files and two different linked files were read, the
\* second of each completing first, and the handler has finished
C19_Witness ==
    /\ pc = "done"
    /\ completed = << <<"main", 2>>, <<"main", 1>>, <<"linked", 2>>, <<"linked", 1>> >>
    /\ mainFiles[1] # mainFiles[2]
    /\ linkedFiles[1] # linkedFiles[2]
    /\ Len(data) = 2

\* ------------------------------------------------------------------ the grid: claims

\* the filter text typed for the column key, '' when none was typed
FilterText(key) == IF Has(filters, key) THEN Get(filters, key) ELSE <<>>

\* every column with a non-empty filter text has a cell value in the row
\* that contains the text, letter case aside
MatchesFilters(row) ==
    \A key \in Fields(filters) :
        FilterText(key) # <<>> =>
            /\ Has(row, key)
            /\ includes(lowerCase(Get(row, key)), lowerCase(FilterText(key)))

\* the filter inputs are the only inputs in play: no sort column was chosen,
\* no exclude filter and no search text is set
OnlyFilterInputs ==
    /\ sortField = NullField
    /\ \A i \in 1..Len(excludeFilters) : excludeFilters[i][2] = <<>>
    /\ globalSearch = <<>>

\* C20: after any sequence of filter-input changes the grid displays exactly
\* the data rows that match every non-empty filter text (case-insensitive
\* substring), in the original data order when no sort column was chosen;
\* with every filter back to the empty string that is every row; the data
\* passed in is never modified.
C20_GridFiltering ==
    ran = "DataGrid" =>
        /\ data = dataAtMount
        /\ OnlyFilterInputs =>
              displayed = SelectSeq(data, MatchesFilters)

\* ------------------------------------------------------------------ the fold: claims

\* the records carry the latest-wins field and the timestamp field of the
\* version that built the map
FoldSchemaOf(version) ==
    IF version = "buildLinkedMap002"
    THEN [lw |-> "sutetasu", ua |-> UpdatedAt002]
    ELSE [lw |-> "status", ua |-> UpdatedAt]

\* the linked record with the greatest timestamp
LatestLinked ==
    CHOOSE j \in LinkedIdx :
        \A k \in LinkedIdx :
            DateTime(Get(linkedData[k], FoldSchemaOf(ran).ua))
                <= DateTime(Get(linkedData[j], FoldSchemaOf(ran).ua))

\* C25: three or more linked records share a key, each with a parseable
\* timestamp of its own and a value of its own for a latest-wins field:
\* after the fold of all of them the consolidated record holds the value of
\* the record with the greatest timestamp, in whatever order the records
\* and their fields appear.
\* Stated for the linked fold of csvUtils.ts and of part_002.
C25_LatestWinsOverFold ==
    ( /\ ran \in {"buildLinkedMap", "buildLinkedMap002"}
      /\ Len(linkedData) >= 3
      /\ \A j \in LinkedIdx : Has(linkedData[j], FoldSchemaOf(ran).lw)
      /\ \A j, k \in LinkedIdx :
            j # k => Get(linkedData[j], FoldSchemaOf(ran).ua)
                        # Get(linkedData[k], FoldSchemaOf(ran).ua) ) =>
        /\ Len(linkedMap) = 1
        /\ Get(linkedMap[1][2], FoldSchemaOf(ran).lw) =
              Get(linkedData[LatestLinked], FoldSchemaOf(ran).lw)

\* ------------------------------------------------------------------ the upload session (Layout.tsx: FileUploadArea; App.tsx, part_001: handleFileUpload)

MaxEvents == 4
MaxSessionFiles == 2

\* the arrays parseCSV returns for the files the user can choose: two main
\* files with one row each, a main file without rows, one linked file
SessionMainDatasets ==
    { << << <<"id", <<"A">>>>, <<"name", <<"X">>>> >> >>,
      << << <<"id", <<"B">>>>, <<"dept", <<"S">>>> >> >>,
      <<>> }

SessionLinkedDatasets ==
    { << << <<"id", <<"A">>>>, <<"dept", <<"T">>>> >> >> }

SessionVersions == {"App.tsx", "part_001"}

InitSession ==
    /\ ran = "none"
    /\ sessionVersion \in SessionVersions
    /\ mainFiles = <<>>
    /\ linkedFiles = <<>>
    /\ gridColumns \in GridConfigs
    /\ mainKey = "id"
    /\ linkedKey = "id"
    /\ data = <<>>
    /\ availableColumns = <<>>
    /\ threw = FALSE
    /\ inFlight = <<>>
    /\ overlapped = FALSE
    /\ eventCount = 0
    /\ mainData = None
    /\ linkedData = None
    /\ merged = None
    /\ linkedMap = None
    /\ mainSlot = None
    /\ linkedSlot = None
    /\ mainDataAtCall = None
    /\ linkedDataAtCall = None
    /\ returnedArray = None
    /\ returnedRows = None
    /\ reconIdle
    /\ composeIdle
    /\ parseIdle
    /\ normIdle
    /\ loadIdle
    /\ gridIdle

sessionFrame == <<gridColumns, mainKey, linkedKey, sessionVersion, reconVars,
                  mainData, linkedData, merged, linkedMap, mainSlot, linkedSlot,
                  mainDataAtCall, linkedDataAtCall, returnedArray, returnedRows,
                  composeVars, parseVars, normVars, loadVars, gridVars>>

\* mainFiles.filter((_, i) => i !== index)
filterIndex(files, index) ==
    [i \in 1..(Len(files) - 1) |-> IF i < index THEN files[i] ELSE files[i + 1]]

\* onUpload(newMain, newLinked): handleFileUpload up to its first await.
\* Without main files it calls setData([]) and returns; with main files it
\* suspends at await Promise.all(...) and the invocation is in flight.
onUpload(newMain, newLinked) ==
    /\ eventCount < MaxEvents
    /\ eventCount' = eventCount + 1
    /\ mainFiles' = newMain
    /\ linkedFiles' = newLinked
    /\ overlapped' = (overlapped \/ inFlight # <<>>)
    /\ IF Len(newMain) = 0
       THEN /\ data' = <<>>
            /\ inFlight' = inFlight
       ELSE /\ data' = data
            /\ inFlight' = Append(inFlight, [main |-> newMain, linked |-> newLinked])
    /\ ran' = "onUpload"
    /\ UNCHANGED <<availableColumns, threw, sessionFrame>>

\* Layout.tsx: handleMainFilesChange
HandleMainFilesChange ==
    \E files \in UNION { [1..n -> SessionMainDatasets] : n \in 1..MaxSessionFiles } :
        /\ Len(mainFiles) + Len(files) <= MaxSessionFiles
        /\ onUpload(mainFiles \o files, linkedFiles)

\* Layout.tsx: handleLinkedFilesChange
HandleLinkedFilesChange ==
    \E files \in UNION { [1..n -> SessionLinkedDatasets] : n \in 1..MaxSessionFiles } :
        /\ Len(linkedFiles) + Len(files) <= MaxSessionFiles
        /\ onUpload(mainFiles, linkedFiles \o files)

\* Layout.tsx: removeMainFile
RemoveMainFile ==
    \E index \in 1..Len(mainFiles) :
        onUpload(filterIndex(mainFiles, index), linkedFiles)

\* Layout.tsx: removeLinkedFile
RemoveLinkedFile ==
    \E index \in 1..Len(linkedFiles) :
        onUpload(mainFiles, filterIndex(linkedFiles, index))

\* handleFileUpload from its first await to its end: the reads of one
\* invocation in flight finish, and it sets the data and the columns from
\* the file lists it was called with. The reads of different invocations
\* finish in any order.
ResumeHandleFileUpload ==
    \E i \in 1..Len(inFlight) :
    \E r \in {handleFileUploadWith(sessionVersion, inFlight[i].main, inFlight[i].linked,
                                   gridColumns, mainKey, linkedKey)} :
        /\ data' = r.data
        /\ availableColumns' =
                IF r.availableColumns = None THEN availableColumns
                ELSE r.availableColumns
        /\ threw' = r.threw
        /\ inFlight' = filterIndex(inFlight, i)
        /\ ran' = "handleFileUpload"
        /\ UNCHANGED <<mainFiles, linkedFiles, overlapped, eventCount, sessionFrame>>

NextSession ==
    \/ HandleMainFilesChange
    \/ HandleLinkedFilesChange
    \/ RemoveMainFile
    \/ RemoveLinkedFile
    \/ ResumeHandleFileUpload

SpecSession == InitSession /\ [][NextSession]_vars

\* ------------------------------------------------------------------ the upload session: claims

\* what handleFileUpload computes from the file lists of the most recent
\* invocation: every change of the lists invokes it with the new lists
LatestUpload ==
    handleFileUploadWith(sessionVersion, mainFiles, linkedFiles, gridColumns,
                         mainKey, linkedKey)

\* C29: invocations of handleFileUpload have overlapped and all of them
\* have finished: the displayed data is the data computed from the file
\* lists of the most recent invocation, and so are the available columns
\* where that invocation sets them.
\* Stated for handleFileUpload of App.tsx and of part_001 under
\* FileUploadArea.
C29_LatestUploadWins ==
    (overlapped /\ inFlight = <<>>) =>
        /\ data = LatestUpload.data
        /\ LatestUpload.availableColumns # None =>
                availableColumns = LatestUpload.availableColumns

\* C30: after additions and removals of files of which none was made while
\* an invocation was in flight, and with none in flight, an empty displayed
\* data goes with an empty list of available columns.
\* Stated for handleFileUpload of App.tsx and of part_001 under
\* FileUploadArea.
C30_DataColumnsConsistent ==
    (~overlapped /\ inFlight = <<>> /\ data = <<>>) =>
        availableColumns = <<>>

====
